---------------------------- MODULE Spec2Model ----------------------------
(***************************************************************************)
(* A model of the JOY2Mulka start-list engine                              *)
(* (joy2mulka-web/src/utils/startlistGenerator.ts and the import code of   *)
(* csvParser): class splitting by rank, affiliation overlap, the shuffler, *)
(* the per-lane time/bib assignment and the full schedule.                 *)
(*                                                                         *)
(* Texts (names, affiliations, times) are sequences of one-character       *)
(* strings, so that splitting, trimming, digit stripping and lower-casing  *)
(* are computed and not assumed.  32-bit words are pairs <<hi, lo>> of     *)
(* 16-bit halves, so that the generator's arithmetic keeps its width.      *)
(***************************************************************************)
EXTENDS Integers, Sequences, FiniteSets, TLC

(***************************************************************************)
(* 32-bit arithmetic of createRng (mulberry32)                             *)
(***************************************************************************)
Pow2(n) == 2 ^ n

Half == 65536

\* x ^ y for 0 <= x, y < 16, at [x + 1][y + 1]
XorTable ==
  <<<<0, 1, 2, 3, 4, 5, 6, 7, 8, 9, 10, 11, 12, 13, 14, 15>>,
     <<1, 0, 3, 2, 5, 4, 7, 6, 9, 8, 11, 10, 13, 12, 15, 14>>,
     <<2, 3, 0, 1, 6, 7, 4, 5, 10, 11, 8, 9, 14, 15, 12, 13>>,
     <<3, 2, 1, 0, 7, 6, 5, 4, 11, 10, 9, 8, 15, 14, 13, 12>>,
     <<4, 5, 6, 7, 0, 1, 2, 3, 12, 13, 14, 15, 8, 9, 10, 11>>,
     <<5, 4, 7, 6, 1, 0, 3, 2, 13, 12, 15, 14, 9, 8, 11, 10>>,
     <<6, 7, 4, 5, 2, 3, 0, 1, 14, 15, 12, 13, 10, 11, 8, 9>>,
     <<7, 6, 5, 4, 3, 2, 1, 0, 15, 14, 13, 12, 11, 10, 9, 8>>,
     <<8, 9, 10, 11, 12, 13, 14, 15, 0, 1, 2, 3, 4, 5, 6, 7>>,
     <<9, 8, 11, 10, 13, 12, 15, 14, 1, 0, 3, 2, 5, 4, 7, 6>>,
     <<10, 11, 8, 9, 14, 15, 12, 13, 2, 3, 0, 1, 6, 7, 4, 5>>,
     <<11, 10, 9, 8, 15, 14, 13, 12, 3, 2, 1, 0, 7, 6, 5, 4>>,
     <<12, 13, 14, 15, 8, 9, 10, 11, 4, 5, 6, 7, 0, 1, 2, 3>>,
     <<13, 12, 15, 14, 9, 8, 11, 10, 5, 4, 7, 6, 1, 0, 3, 2>>,
     <<14, 15, 12, 13, 10, 11, 8, 9, 6, 7, 4, 5, 2, 3, 0, 1>>,
     <<15, 14, 13, 12, 11, 10, 9, 8, 7, 6, 5, 4, 3, 2, 1, 0>>>>

\* x ^ y on 16-bit numbers, four bits at a time
Xor16(x, y) ==
  XorTable[(x % 16) + 1][(y % 16) + 1]
  + 16 * XorTable[((x \div 16) % 16) + 1][((y \div 16) % 16) + 1]
  + 256 * XorTable[((x \div 256) % 16) + 1][((y \div 256) % 16) + 1]
  + 4096 * XorTable[(x \div 4096) + 1][(y \div 4096) + 1]

\* a word of the 32-bit value hi * 2^16 + lo
Word(hi, lo) == <<hi, lo>>

WordOfNat(n) == Word((n \div Half) % Half, n % Half)

Xor32(a, b) == Word(Xor16(a[1], b[1]), Xor16(a[2], b[2]))

Add32(a, b) ==
  LET lo == a[2] + b[2]
  IN  Word((a[1] + b[1] + (lo \div Half)) % Half, lo % Half)

\* a >>> k for 0 < k < 16
Shr32(a, k) ==
  Word(a[1] \div Pow2(k),
       (a[2] \div Pow2(k)) + (a[1] % Pow2(k)) * Pow2(16 - k))

\* a | 1
Or1(a) == Word(a[1], IF a[2] % 2 = 0 THEN a[2] + 1 ELSE a[2])

\* a | 61  (61 = 111101b: of the low six bits only bit 1 is kept)
Or61(a) == Word(a[1], (a[2] - (a[2] % 64)) + 61 + 2 * ((a[2] \div 2) % 2))

\* the 32-bit product of two 16-bit numbers, as a word
Mul16(x, y) ==
  LET x0 == x % 256
      x1 == x \div 256
      y0 == y % 256
      y1 == y \div 256
      mid == x1 * y0 + x0 * y1
      low == x0 * y0 + (mid % 256) * 256
  IN  Word((x1 * y1 + (mid \div 256) + (low \div Half)) % Half, low % Half)

\* Math.imul(a, b): the low 32 bits of the product
Imul(a, b) ==
  LET p == Mul16(a[2], b[2])
  IN  Word((p[1] + Mul16(a[1], b[2])[2] + Mul16(a[2], b[1])[2]) % Half, p[2])

\* 0x6d2b79f5
Mulberry32Step == Word(27947, 31221)

\* createRng's internal state after its k-th call: every call adds 0x6d2b79f5
\* to the closure's seed, which bitwise operators read modulo 2^32
rngStateAfter(seed, k) ==
  Add32(WordOfNat(seed), Imul(WordOfNat(k), Mulberry32Step))

\* the 32-bit numerator of the value one call returns from state t
rngOutput(t0) ==
  LET t1 == Imul(Xor32(t0, Shr32(t0, 15)), Or1(t0))
      t2 == Xor32(t1, Add32(t1, Imul(Xor32(t1, Shr32(t1, 7)), Or61(t1))))
  IN  Xor32(t2, Shr32(t2, 14))

\* Math.floor(rng() * n) for the call that returns numerator u
FloorScaled(u, n) == (u[1] * n + ((u[2] * n) \div Half)) \div Half


(***************************************************************************)
(* Texts: sequences of characters.  The characters that have no ASCII form *)
(* are named: FWSP is U+3000 (full-width space), FWCOMMA is U+3001,        *)
(* MINUS is U+2212 and HBAR is U+2015.                                     *)
(***************************************************************************)
FWSP == "FWSP"

FWCOMMA == "FWCOMMA"

MINUS == "MINUS"

HBAR == "HBAR"

DigitChars == <<"0", "1", "2", "3", "4", "5", "6", "7", "8", "9">>

IsDigit(c) == \E i \in 1..10 : DigitChars[i] = c

DigitValue(c) == (CHOOSE i \in 1..10 : DigitChars[i] = c) - 1

\* \s of a JavaScript regular expression, and what trim() removes
IsSpace(c) == c \in {" ", FWSP}

\* the class [/,、]
IsSeparator(c) == c \in {"/", ",", FWCOMMA}

UpperChars ==
  <<"A", "B", "C", "D", "E", "F", "G", "H", "I", "J", "K", "L", "M",
    "N", "O", "P", "Q", "R", "S", "T", "U", "V", "W", "X", "Y", "Z">>

LowerChars ==
  <<"a", "b", "c", "d", "e", "f", "g", "h", "i", "j", "k", "l", "m",
    "n", "o", "p", "q", "r", "s", "t", "u", "v", "w", "x", "y", "z">>

LowerChar(c) ==
  IF \E i \in 1..26 : UpperChars[i] = c
  THEN LowerChars[CHOOSE i \in 1..26 : UpperChars[i] = c]
  ELSE c

toLowerCase(s) == [i \in 1..Len(s) |-> LowerChar(s[i])]

\* a replace that removes nothing
KeepTrailingDigits(s) == s

\* s.replace(/\d+$/, '')
RECURSIVE StripTrailingDigits(_)
StripTrailingDigits(s) ==
  IF Len(s) > 0 /\ IsDigit(s[Len(s)])
  THEN StripTrailingDigits(SubSeq(s, 1, Len(s) - 1))
  ELSE s

RECURSIVE TrimLeft(_)
TrimLeft(s) ==
  IF Len(s) > 0 /\ IsSpace(s[1]) THEN TrimLeft(Tail(s)) ELSE s

RECURSIVE TrimRight(_)
TrimRight(s) ==
  IF Len(s) > 0 /\ IsSpace(s[Len(s)])
  THEN TrimRight(SubSeq(s, 1, Len(s) - 1))
  ELSE s

\* s.trim()
Trim(s) == TrimLeft(TrimRight(s))

\* s.split(/[/,、]/): the parts between separators, empty parts kept
RECURSIVE SplitOnSeparators(_, _, _)
SplitOnSeparators(s, i, part) ==
  IF i > Len(s) THEN <<part>>
  ELSE IF IsSeparator(s[i])
       THEN <<part>> \o SplitOnSeparators(s, i + 1, <<>>)
       ELSE SplitOnSeparators(s, i + 1, Append(part, s[i]))

\* text.replace(/　/g, ' ').split(/\s+/).filter(Boolean).join(' ')
RECURSIVE CollapseSpaces(_, _)
CollapseSpaces(s, i) ==
  IF i > Len(s) THEN <<>>
  ELSE IF IsSpace(s[i])
       THEN IF i < Len(s) /\ ~IsSpace(s[i + 1])
            THEN <<" ">> \o CollapseSpaces(s, i + 1)
            ELSE CollapseSpaces(s, i + 1)
       ELSE <<s[i]>> \o CollapseSpaces(s, i + 1)

normalizeWhitespace(text) == TrimLeft(CollapseSpaces(text, 1))

\* filter(Boolean) on a list of texts
RECURSIVE FilterNonEmpty(_)
FilterNonEmpty(parts) ==
  IF parts = <<>> THEN <<>>
  ELSE IF Head(parts) = <<>> THEN FilterNonEmpty(Tail(parts))
       ELSE <<Head(parts)>> \o FilterNonEmpty(Tail(parts))

Range(f) == {f[i] : i \in DOMAIN f}

\* the element of a one-element set.  TheOnly({F(x) : x \in {e}}) is F(e)
\* with e computed once, however often F uses it.
TheOnly(S) == CHOOSE x \in S : TRUE

(***************************************************************************)
(* Affiliations                                                            *)
(***************************************************************************)
\* the placeholders ['-', '−', '―'] of parseAffiliation
HyphenMarkers == {<<"-">>, <<MINUS>>, <<HBAR>>}

\* the loop body of parseAffiliation over the split parts
RECURSIVE parseAffiliationParts(_)
parseAffiliationParts(parts) ==
  IF parts = <<>> THEN <<>>
  ELSE LET part == normalizeWhitespace(Head(parts))
           stripped == Trim(StripTrailingDigits(part))
           rest == parseAffiliationParts(Tail(parts))
       IN  IF part = <<>> \/ part \in HyphenMarkers THEN rest
           ELSE IF stripped # <<>> THEN <<stripped>> \o rest
           ELSE rest

parseAffiliation(affiliation) ==
  IF affiliation = <<>> \/ affiliation \in HyphenMarkers THEN <<>>
  ELSE parseAffiliationParts(SplitOnSeparators(affiliation, 1, <<>>))

\* aff.replace(/\d+$/, '').trim().toLowerCase()
normalizeToken(aff) == toLowerCase(Trim(StripTrailingDigits(aff)))

normalizeTokens(affs) == FilterNonEmpty([i \in 1..Len(affs) |-> normalizeToken(affs[i])])

getAffiliationsForCheck(entry) ==
  LET affiliations ==
        IF Len(entry.affiliations) = 0
        THEN IF entry.affiliation # <<>> /\ entry.affiliation # <<"-">>
             THEN <<entry.affiliation>>
             ELSE entry.affiliations
        ELSE entry.affiliations
  IN  normalizeTokens(affiliations)

\* a comparison that finds no two entries alike
neverOverlap(entry1, entry2) == FALSE

hasAffiliationOverlap(entry1, entry2) ==
  LET affs1 == Range(getAffiliationsForCheck(entry1))
      affs2 == Range(getAffiliationsForCheck(entry2))
  IN  IF affs1 = {} \/ affs2 = {} THEN FALSE
      ELSE \E aff \in affs1 : aff \in affs2

\* the token list checkConflicts derives from a schedule row
parseAffiliationsFromEntry(row) ==
  LET aff == row.affiliation
  IN  IF aff = <<>> \/ aff = <<"-">> THEN <<>>
      ELSE normalizeTokens(SplitOnSeparators(aff, 1, <<>>))

(***************************************************************************)
(* The seeded generator as an object: the seed it was created from and the *)
(* number of calls made so far.                                            *)
(***************************************************************************)
\* the default seed (globalSettings.seed) and one other
SeedList == <<42, 7>>

Seeds == Range(SeedList)

\* the attempts generateStartListForLane asks of the shuffler
LaneMaxAttempts == 1000

createRng(seed) == [seed |-> seed, calls |-> 0]

\* the numerator of the value the next call of rng returns
rngValue(rng) == rngOutput(rngStateAfter(rng.seed, rng.calls + 1))

\* the generator after n more calls
rngAdvance(rng, n) == [rng EXCEPT !.calls = @ + n]

\* an exchange that writes only one of the two cells
SwapHalf(a, i, j) == [a EXCEPT ![i] = a[j]]

Swap(a, i, j) == [a EXCEPT ![i] = a[j], ![j] = a[i]]

\* the loop of shuffleArray at 0-based index i
RECURSIVE shuffleFrom(_, _, _)
shuffleFrom(result, i, rng) ==
  IF i <= 0 THEN result
  ELSE LET j == FloorScaled(rngValue(rng), i + 1)
       IN  TheOnly({shuffleFrom(swapped, i - 1, rngAdvance(rng, 1)) :
                      swapped \in {Swap(result, i + 1, j + 1)}})

shuffleArray(array, rng) == shuffleFrom(array, Len(array) - 1, rng)

\* the calls of rng one shuffleArray(array, rng) makes
shuffleDraws(array) == IF Len(array) > 1 THEN Len(array) - 1 ELSE 0

(***************************************************************************)
(* splitClassByRanking                                                     *)
(***************************************************************************)
\* name.replace(/[\s　]+/g, '').toLowerCase()
RECURSIVE RemoveSpaces(_)
RemoveSpaces(s) ==
  IF s = <<>> THEN <<>>
  ELSE IF IsSpace(Head(s)) THEN RemoveSpaces(Tail(s))
       ELSE <<Head(s)>> \o RemoveSpaces(Tail(s))

normalizeName(name) == toLowerCase(RemoveSpaces(name))

\* rankings is a Map: a sequence of <<name, rank>> in insertion order.
\* The result is <<rank>>, or <<>> for null.
lookupEntryRank(entry, rankings) ==
  LET exact == {i \in 1..Len(rankings) : rankings[i][1] = entry.name1}
      norm == {i \in 1..Len(rankings) :
                 normalizeName(rankings[i][1]) = normalizeName(entry.name1)}
      first(S) == CHOOSE i \in S : \A k \in S : i <= k
  IN  IF exact # {} THEN <<rankings[first(exact)][2]>>
      ELSE IF norm # {} THEN <<rankings[first(norm)][2]>>
      ELSE <<>>

\* rankedEntries and unrankedEntries, in the order of entries
RECURSIVE rankedOf(_, _)
rankedOf(entries, rankings) ==
  IF entries = <<>> THEN <<>>
  ELSE LET rank == lookupEntryRank(Head(entries), rankings)
           rest == rankedOf(Tail(entries), rankings)
       IN  IF rank # <<>>
           THEN <<[rank |-> rank[1], entry |-> Head(entries)]>> \o rest
           ELSE rest

RECURSIVE unrankedOf(_, _)
unrankedOf(entries, rankings) ==
  IF entries = <<>> THEN <<>>
  ELSE LET rest == unrankedOf(Tail(entries), rankings)
       IN  IF lookupEntryRank(Head(entries), rankings) = <<>>
           THEN <<Head(entries)>> \o rest
           ELSE rest

\* a sort that leaves the entries in the order they came
insertByRankLast(sorted, x) == Append(sorted, x)

\* rankedEntries.sort((a, b) => a.rank - b.rank): a stable sort
RECURSIVE insertByRank(_, _)
insertByRank(sorted, x) ==
  IF sorted = <<>> THEN <<x>>
  ELSE IF Head(sorted).rank <= x.rank
       THEN <<Head(sorted)>> \o insertByRank(Tail(sorted), x)
       ELSE <<x>> \o sorted

RECURSIVE sortByRank(_)
sortByRank(ranked) ==
  IF ranked = <<>> THEN <<>>
  ELSE insertByRank(sortByRank(SubSeq(ranked, 1, Len(ranked) - 1)),
                    ranked[Len(ranked)])

\* groups after the ranked entries from 0-based index i on are placed
RECURSIVE distributeRanked(_, _, _)
distributeRanked(groups, ranked, i) ==
  IF i >= Len(ranked) THEN groups
  ELSE LET groupIdx == i % Len(groups)
       IN  distributeRanked(
             [groups EXCEPT ![groupIdx + 1] = Append(@, ranked[i + 1].entry)],
             ranked, i + 1)

\* a scan that never moves off the first group
smallestGroupStuck(groups) == 1

\* the index (1-based) of the first group of the smallest size
\* among several smallest groups, the last one
smallestGroupLast(groups) ==
  CHOOSE m \in 1..Len(groups) :
    /\ \A i \in 1..Len(groups) : Len(groups[m]) <= Len(groups[i])
    /\ \A i \in (m + 1)..Len(groups) : Len(groups[i]) > Len(groups[m])

smallestGroup(groups) ==
  CHOOSE m \in 1..Len(groups) :
    /\ \A i \in 1..Len(groups) : Len(groups[m]) <= Len(groups[i])
    /\ \A i \in 1..(m - 1) : Len(groups[i]) > Len(groups[m])

RECURSIVE distributeUnranked(_, _)
distributeUnranked(groups, shuffled) ==
  IF shuffled = <<>> THEN groups
  ELSE TheOnly({distributeUnranked(longer, Tail(shuffled)) :
                  longer \in {[groups EXCEPT ![smallestGroup(groups)] =
                                               Append(@, Head(shuffled))]}})

\* splitCount < 1 with an entry to place: groups[...] is undefined and
\* .push or .length throws a TypeError
splitClassThrows(entries, splitCount) == splitCount < 1 /\ entries # <<>>

splitClassByRanking(entries, splitCount, rankings, seed) ==
  LET rng == createRng(seed)
      rankedEntries == sortByRank(rankedOf(entries, rankings))
      unrankedEntries == unrankedOf(entries, rankings)
      empty == [i \in 1..(IF splitCount > 0 THEN splitCount ELSE 0) |-> <<>>]
  IN  IF splitClassThrows(entries, splitCount) THEN <<>>
      ELSE TheOnly({distributeUnranked(groups, shuffledUnranked) :
                      groups \in {distributeRanked(empty, rankedEntries, 0)},
                      shuffledUnranked \in {shuffleArray(unrankedEntries,
                                                         rng)}})

(***************************************************************************)
(* The shuffler                                                            *)
(***************************************************************************)
\* Arrays hold references to the entries: inside the search an array is a
\* sequence of positions of the input, and overlap[i][j] is
\* hasAffiliationOverlap of the entries at input positions i and j.
RECURSIVE overlapRow(_, _, _)
overlapRow(entries, i, j) ==
  IF j > Len(entries) THEN <<>>
  ELSE <<hasAffiliationOverlap(entries[i], entries[j])>>
       \o overlapRow(entries, i, j + 1)

RECURSIVE overlapRows(_, _)
overlapRows(entries, i) ==
  IF i > Len(entries) THEN <<>>
  ELSE <<overlapRow(entries, i, 1)>> \o overlapRows(entries, i + 1)

overlapMatrix(entries) == overlapRows(entries, 1)

Positions(entries) == [i \in 1..Len(entries) |-> i]

DerefAll(order, entries) == [i \in 1..Len(order) |-> entries[order[i]]]

conflictsIn(order, overlap) ==
  Cardinality({i \in 1..(Len(order) - 1) : overlap[order[i]][order[i + 1]]})

countConsecutiveConflicts(entries) ==
  conflictsIn(Positions(entries), overlapMatrix(entries))

RemoveAt(s, i) == SubSeq(s, 1, i - 1) \o SubSeq(s, i + 1, Len(s))

\* a loop that appends the pool as it is
greedyTakePool(result, remaining, overlap) == result \o remaining

\* the while loop of greedyOrderByAffiliation
RECURSIVE greedyLoop(_, _, _)
greedyLoop(result, remaining, overlap) ==
  IF remaining = <<>> THEN result
  ELSE LET ok == {i \in 1..Len(remaining) :
                    ~overlap[result[Len(result)]][remaining[i]]}
       IN  TheOnly({TheOnly({greedyLoop(longer, rest, overlap) :
                      longer \in {Append(result, remaining[pick])},
                      rest \in {RemoveAt(remaining, pick)}}) :
             pick \in {IF ok # {} THEN CHOOSE i \in ok : \A k \in ok : i <= k
                       ELSE 1}})

greedyOrder(order, overlap) ==
  IF Len(order) <= 1 THEN order
  ELSE greedyLoop(<<Head(order)>>, Tail(order), overlap)

greedyOrderByAffiliation(entries) ==
  DerefAll(greedyOrder(Positions(entries), overlapMatrix(entries)), entries)

\* a round that also keeps a result with as many conflicts as the best
attemptStepOnTie(input, overlap, st) ==
  IF st.done THEN st
  ELSE LET result == greedyOrder(shuffleArray(input, st.rng), overlap)
           conflicts == conflictsIn(result, overlap)
       IN  [result |-> IF conflicts <= st.conflicts THEN result ELSE st.result,
            conflicts |-> IF conflicts <= st.conflicts THEN conflicts ELSE st.conflicts,
            rounds |-> st.rounds + 1,
            rng |-> rngAdvance(st.rng, shuffleDraws(input)),
            done |-> conflicts = 0]

\* one round of the for loop of shuffleAvoidingConsecutiveAffiliations;
\* st is [result, conflicts, rounds, rng, done], done after the break
attemptStep(input, overlap, st) ==
  IF st.done THEN st
  ELSE TheOnly({TheOnly({
         [result |-> IF conflicts < st.conflicts THEN result ELSE st.result,
          conflicts |-> IF conflicts < st.conflicts THEN conflicts
                        ELSE st.conflicts,
          rounds |-> st.rounds + 1,
          rng |-> rngAdvance(st.rng, shuffleDraws(input)),
          done |-> conflicts = 0] :
         conflicts \in {conflictsIn(result, overlap)}}) :
         result \in {greedyOrder(shuffleArray(input, st.rng), overlap)}})

\* rounds lo..hi-1 of the for loop, in order
RECURSIVE attemptLoop(_, _, _, _, _)
attemptLoop(input, overlap, st, lo, hi) ==
  IF lo >= hi \/ st.done THEN st
  ELSE IF hi = lo + 1 THEN attemptStep(input, overlap, st)
  ELSE TheOnly({attemptLoop(input, overlap, half, (lo + hi) \div 2, hi) :
                  half \in {attemptLoop(input, overlap, st, lo,
                                        (lo + hi) \div 2)}})

\* a search whose best count starts above every count, so that the first
\* round always replaces the input
shuffleSearchUnanchored(entries, maxAttempts, seed) ==
  TheOnly({TheOnly({
    IF Len(entries) <= 1 THEN start
    ELSE attemptLoop(input, overlap, start, 0, maxAttempts) :
    start \in {[result |-> input, conflicts |-> Len(input),
                rounds |-> 0, rng |-> createRng(seed), done |-> FALSE]}}) :
    input \in {Positions(entries)}, overlap \in {overlapMatrix(entries)}})

\* the search with its bookkeeping: the order kept (as input positions), its
\* conflict count and the number of rounds run
shuffleSearch(entries, maxAttempts, seed) ==
  TheOnly({TheOnly({
    IF Len(entries) <= 1 THEN start
    ELSE attemptLoop(input, overlap, start, 0, maxAttempts) :
    start \in {[result |-> input, conflicts |-> conflictsIn(input, overlap),
                rounds |-> 0, rng |-> createRng(seed), done |-> FALSE]}}) :
    input \in {Positions(entries)}, overlap \in {overlapMatrix(entries)}})

shuffleAvoidingConsecutiveAffiliations(entries, maxAttempts, seed) ==
  DerefAll(shuffleSearch(entries, maxAttempts, seed).result, entries)

(***************************************************************************)
(* Import: one data row of the entry list becomes one Entry                *)
(***************************************************************************)
\* safeGet: an empty cell stays empty, any other is whitespace-normalized
safeGet(cell) == IF cell = <<>> THEN <<>> ELSE normalizeWhitespace(cell)

\* the value of the leading digits of s
RECURSIVE leadingDigits(_, _)
leadingDigits(s, acc) ==
  IF s = <<>> \/ ~IsDigit(Head(s)) THEN acc
  ELSE leadingDigits(Tail(s), 10 * acc + DigitValue(Head(s)))

\* parseInt(text) || default: leading blanks, a sign, then digits
parseIntOr(text, default) ==
  LET s == TrimLeft(text)
      signed == s # <<>> /\ Head(s) \in {"-", "+"}
      body == IF signed THEN Tail(s) ELSE s
      value == IF s # <<>> /\ Head(s) = "-" THEN 0 - leadingDigits(body, 0)
               ELSE leadingDigits(body, 0)
  IN  IF body = <<>> \/ ~IsDigit(Head(body)) THEN default
      ELSE IF value = 0 THEN default
      ELSE value

\* the Entry parseEntries pushes for a row [class, name1, affiliation,
\* cardNumber, rentalCount] of raw cells, with the id counter at entryId
parseEntry(row, entryId) ==
  LET affiliation == safeGet(row.affiliation)
      cardNumber == safeGet(row.cardNumber)
      rentalCount == parseIntOr(safeGet(row.rentalCount), 0)
  IN  [id |-> entryId,
       className |-> safeGet(row.class),
       name1 |-> safeGet(row.name1),
       affiliation |-> IF affiliation # <<>> /\ affiliation # <<"-">>
                       THEN affiliation ELSE <<>>,
       affiliations |-> parseAffiliation(affiliation),
       cardNumber |-> cardNumber,
       isRental |-> rentalCount > 0 /\ cardNumber = <<>>]

\* rows without a class or a name are skipped; ids count the entries pushed
RECURSIVE parseEntriesFrom(_, _)
parseEntriesFrom(data, entryId) ==
  IF data = <<>> THEN <<>>
  ELSE IF safeGet(Head(data).class) = <<>> \/ safeGet(Head(data).name1) = <<>>
       THEN parseEntriesFrom(Tail(data), entryId)
       ELSE <<parseEntry(Head(data), entryId)>>
            \o parseEntriesFrom(Tail(data), entryId + 1)

parseEntries(data) == parseEntriesFrom(data, 0)
\* entry.affiliation || '-'
rowAffiliation(entry) ==
  IF entry.affiliation = <<>> THEN <<"-">> ELSE entry.affiliation

(***************************************************************************)
(* Times                                                                   *)
(***************************************************************************)
\* timeStr.split(/[:;]/)
RECURSIVE SplitOnColons(_, _, _)
SplitOnColons(s, i, part) ==
  IF i > Len(s) THEN <<part>>
  ELSE IF s[i] \in {":", ";"}
       THEN <<part>> \o SplitOnColons(s, i + 1, <<>>)
       ELSE SplitOnColons(s, i + 1, Append(part, s[i]))

parseTimeToMinutes(timeStr) ==
  LET parts == SplitOnColons(timeStr, 1, <<>>)
  IN  parseIntOr(parts[1], 0) * 60
      + (IF Len(parts) >= 2 THEN parseIntOr(parts[2], 0) ELSE 0)

\* n.toString() for n >= 0
RECURSIVE NatToText(_)
NatToText(n) ==
  IF n < 10 THEN <<DigitChars[n + 1]>>
  ELSE Append(NatToText(n \div 10), DigitChars[(n % 10) + 1])

\* n.toString()
IntToText(n) == IF n < 0 THEN <<"-">> \o NatToText(0 - n) ELSE NatToText(n)

\* text.padStart(2, '0')
padStart2(text) ==
  IF Len(text) >= 2 THEN text
  ELSE IF Len(text) = 1 THEN <<"0">> \o text
  ELSE <<"0", "0">>

\* a % b of JavaScript: the sign of the dividend
jsRemainder(a, b) == IF a >= 0 THEN a % b ELSE 0 - ((0 - a) % b)

formatTime(minutes) ==
  LET h == minutes \div 60
      m == jsRemainder(minutes, 60)
  IN  padStart2(IntToText(h)) \o <<":">> \o padStart2(IntToText(m))
      \o <<":", "0", "0">>

(***************************************************************************)
(* generateStartListForLane                                                *)
(***************************************************************************)
\* a course's order ?? 0; an absent order is <<>>, a present one <<n>>
orderOf(course) == IF course.order = <<>> THEN 0 ELSE course.order[1]

\* [...courses].sort((a, b) => (a.order ?? 0) - (b.order ?? 0)): stable
RECURSIVE insertByOrder(_, _)
insertByOrder(sorted, course) ==
  IF sorted = <<>> THEN <<course>>
  ELSE IF orderOf(Head(sorted)) <= orderOf(course)
       THEN <<Head(sorted)>> \o insertByOrder(Tail(sorted), course)
       ELSE <<course>> \o sorted

\* the courses as they were passed
asPassed(courses) == courses

RECURSIVE sortByOrder(_)
sortByOrder(courses) ==
  IF courses = <<>> THEN <<>>
  ELSE insertByOrder(sortByOrder(SubSeq(courses, 1, Len(courses) - 1)),
                     courses[Len(courses)])

\* the entries of one course in start order
\* every course ordered by the search, whatever the lane asks
orderEntriesSeparated(course, affiliationSplit, seed) ==
  shuffleAvoidingConsecutiveAffiliations(course.entries, LaneMaxAttempts, seed)

orderEntries(course, affiliationSplit, seed) ==
  IF affiliationSplit
  THEN shuffleAvoidingConsecutiveAffiliations(course.entries,
                                              LaneMaxAttempts, seed)
  ELSE shuffleArray(course.entries, createRng(seed))

\* a note read off the card number alone
cardNoteByNumber(entry) ==
  IF entry.cardNumber # <<>> THEN "my card" ELSE "rental"

cardNoteOf(entry) ==
  IF entry.isRental THEN "rental"
  ELSE IF entry.cardNumber # <<>> THEN "my card" ELSE "rental"

\* the StartListEntry pushed for the entry at 0-based index i of a course
startListEntry(course, entry, lane, startArea, currentTimeMinutes, currentNumber, i) ==
  [className |-> course.name,
   startNumber |-> currentNumber + i,
   name1 |-> entry.name1,
   affiliation |-> rowAffiliation(entry),
   startTime |-> formatTime(currentTimeMinutes + i * lane.interval),
   cardNumber |-> entry.cardNumber,
   cardNote |-> cardNoteOf(entry),
   isRental |-> entry.isRental \/ entry.cardNumber = <<>>,
   lane |-> lane.name,
   startArea |-> startArea.name]

\* a clock that is not moved on at the end of a course
advanceTimeStuck(currentTimeMinutes, count, lane) == currentTimeMinutes

\* currentTimeMinutes += orderedEntries.length * lane.interval
advanceTime(currentTimeMinutes, count, lane) ==
  currentTimeMinutes + count * lane.interval

\* a bib counter that is not moved on at the end of a course
advanceNumberStuck(currentNumber, count) == currentNumber

\* currentNumber += orderedEntries.length
advanceNumber(currentNumber, count) == currentNumber + count

\* the for loop over sortedCourses
RECURSIVE laneLoop(_, _, _, _, _, _, _)
laneLoop(sortedCourses, lane, startArea, affiliationSplit, seed, currentTimeMinutes, currentNumber) ==
  IF sortedCourses = <<>> THEN <<>>
  ELSE TheOnly({
         [k \in 1..Len(orderedEntries) |->
            startListEntry(Head(sortedCourses), orderedEntries[k], lane,
                           startArea, currentTimeMinutes, currentNumber,
                           k - 1)]
         \o laneLoop(Tail(sortedCourses), lane, startArea, affiliationSplit,
                     seed,
                     advanceTime(currentTimeMinutes, Len(orderedEntries),
                                 lane),
                     advanceNumber(currentNumber, Len(orderedEntries))) :
         orderedEntries \in {orderEntries(Head(sortedCourses),
                                          affiliationSplit, seed)}})

generateStartListForLane(courses, lane, startArea, affiliationSplit, seed) ==
  TheOnly({laneLoop(sortedCourses, lane, startArea, affiliationSplit, seed,
                    parseTimeToMinutes(lane.startTime), lane.startNumber) :
             sortedCourses \in {sortByOrder(courses)}})

(***************************************************************************)
(* Classes and courses                                                     *)
(***************************************************************************)
\* the characters of class names and times, in the order localeCompare
\* ranks them
CollationOrder ==
  <<"-", ";", ":", "0", "1", "2", "3", "4", "5", "6", "7", "8", "9",
    "C", "M", "W">>

charRank(c) == CHOOSE i \in 1..Len(CollationOrder) : CollationOrder[i] = c

\* a.localeCompare(b) < 0
RECURSIVE textBefore(_, _)
textBefore(a, b) ==
  IF b = <<>> THEN FALSE
  ELSE IF a = <<>> THEN TRUE
  ELSE IF Head(a) = Head(b) THEN textBefore(Tail(a), Tail(b))
  ELSE charRank(Head(a)) < charRank(Head(b))

\* entries.filter((e) => e.className === className)
RECURSIVE entriesOfClass(_, _)
entriesOfClass(entries, className) ==
  IF entries = <<>> THEN <<>>
  ELSE IF Head(entries).className = className
       THEN <<Head(entries)>> \o entriesOfClass(Tail(entries), className)
       ELSE entriesOfClass(Tail(entries), className)

\* the names of a set of classes, sorted by localeCompare
RECURSIVE sortedNames(_)
sortedNames(names) ==
  IF names = {} THEN <<>>
  ELSE LET least == CHOOSE n \in names :
                      \A other \in names \ {n} : textBefore(n, other)
       IN  <<least>> \o sortedNames(names \ {least})

\* detectClasses, and the ClassInfo the upload step makes of each class
detectClasses(entries) ==
  LET names == sortedNames({entries[i].className : i \in 1..Len(entries)}
                           \ {<<>>})
  IN  [k \in 1..Len(names) |->
         [name |-> names[k],
          count |-> Len(entriesOfClass(entries, names[k])),
          shouldSplit |-> FALSE,
          splitCount |-> 2]]

\* the courses generateCourses pushes for one class
coursesOfClass(cls, entries) ==
  IF cls.shouldSplit /\ cls.splitCount > 1
  THEN [i \in 1..cls.splitCount |->
          [id |-> cls.name \o <<"-">> \o NatToText(i),
           name |-> cls.name \o NatToText(i),
           originalClass |-> cls.name,
           splitNumber |-> i,
           entries |-> <<>>,
           order |-> <<>>]]
  ELSE <<[id |-> cls.name,
          name |-> cls.name,
          originalClass |-> cls.name,
          splitNumber |-> 0,
          entries |-> entriesOfClass(entries, cls.name),
          order |-> <<>>]>>

RECURSIVE generateCourses(_, _)
generateCourses(classes, entries) ==
  IF classes = <<>> THEN <<>>
  ELSE coursesOfClass(Head(classes), entries)
       \o generateCourses(Tail(classes), entries)

(***************************************************************************)
(* generateStartList                                                       *)
(***************************************************************************)
\* courses.find((c) => c.id === courseId): <<course>>, or <<>> when none
RECURSIVE findCourse(_, _)
findCourse(courses, courseId) ==
  IF courses = <<>> THEN <<>>
  ELSE IF Head(courses).id = courseId THEN <<Head(courses)>>
       ELSE findCourse(Tail(courses), courseId)

\* courses.filter((c) => c.originalClass === course.originalClass).length
splitCountOf(courses, course) ==
  Cardinality({i \in 1..Len(courses) :
                 courses[i].originalClass = course.originalClass})

\* groups[course.splitNumber - 1] || []
splitGroupOf(groups, course) ==
  IF course.splitNumber <= Len(groups)
  THEN groups[course.splitNumber] ELSE <<>>

\* the entries generateStartList gives a course
courseEntriesOf(course, courses, entries, seed) ==
  IF course.splitNumber # 0
  THEN splitGroupOf(splitClassByRanking(
                      entriesOfClass(entries, course.originalClass),
                      splitCountOf(courses, course), <<>>, seed),
                    course)
  ELSE entriesOfClass(entries, course.originalClass)

\* the populated courses of one lane, in the order of lane.courseIds
RECURSIVE populateLane(_, _, _, _, _, _)
populateLane(courseIds, area, lane, courses, entries, seed) ==
  IF courseIds = <<>> THEN <<>>
  ELSE LET found == findCourse(courses, Head(courseIds))
           rest == populateLane(Tail(courseIds), area, lane, courses,
                                entries, seed)
       IN  IF found = <<>> THEN rest
           ELSE <<[id |-> found[1].id,
                   name |-> found[1].name,
                   originalClass |-> found[1].originalClass,
                   splitNumber |-> found[1].splitNumber,
                   order |-> found[1].order,
                   entries |-> courseEntriesOf(found[1], courses, entries,
                                               seed),
                   startAreaId |-> area.id,
                   laneId |-> lane.id]>> \o rest

\* every lane with its area, in the order the two nested loops visit them
RECURSIVE lanesInOrder(_)
lanesInOrder(startAreas) ==
  IF startAreas = <<>> THEN <<>>
  ELSE [k \in 1..Len(Head(startAreas).lanes) |->
          [area |-> Head(startAreas), lane |-> Head(startAreas).lanes[k]]]
       \o lanesInOrder(Tail(startAreas))

RECURSIVE populateAll(_, _, _, _)
populateAll(places, courses, entries, seed) ==
  IF places = <<>> THEN <<>>
  ELSE populateLane(Head(places).lane.courseIds, Head(places).area,
                    Head(places).lane, courses, entries, seed)
       \o populateAll(Tail(places), courses, entries, seed)

\* populatedCourses.filter((c) => c.laneId === lane.id &&
\*                                c.startAreaId === area.id)
RECURSIVE coursesOfLane(_, _, _)
coursesOfLane(populatedCourses, area, lane) ==
  IF populatedCourses = <<>> THEN <<>>
  ELSE IF Head(populatedCourses).laneId = lane.id
          /\ Head(populatedCourses).startAreaId = area.id
       THEN <<Head(populatedCourses)>>
            \o coursesOfLane(Tail(populatedCourses), area, lane)
       ELSE coursesOfLane(Tail(populatedCourses), area, lane)

\* the second pair of loops: every lane's rows, one lane after the other
RECURSIVE allLaneRows(_, _, _, _)
allLaneRows(places, populatedCourses, constraints, seed) ==
  IF places = <<>> THEN <<>>
  ELSE LET area == Head(places).area
           lane == Head(places).lane
           laneCourseList == coursesOfLane(populatedCourses, area, lane)
           rest == allLaneRows(Tail(places), populatedCourses, constraints,
                               seed)
       IN  IF laneCourseList = <<>> THEN rest
           ELSE generateStartListForLane(
                  laneCourseList, lane, area,
                  lane.affiliationSplit
                    /\ constraints.avoidSameClubConsecutive,
                  seed) \o rest

\* a sort that puts a row before the rows of the same start time
insertByStartTimeFirst(sorted, row) ==
  LET before == {i \in 1..Len(sorted) :
                   \A k \in 1..i : textBefore(sorted[k].startTime,
                                              row.startTime)}
      n == Cardinality(before)
  IN  SubSeq(sorted, 1, n) \o <<row>> \o SubSeq(sorted, n + 1, Len(sorted))

\* where a stable sort puts a row into the rows sorted so far: behind every
\* row that does not compare greater
insertByStartTime(sorted, row) ==
  LET notAfter == {i \in 1..Len(sorted) :
                     \A k \in 1..i : ~textBefore(row.startTime,
                                                 sorted[k].startTime)}
      n == Cardinality(notAfter)
  IN  SubSeq(sorted, 1, n) \o <<row>> \o SubSeq(sorted, n + 1, Len(sorted))

\* startList.sort((a, b) => a.startTime.localeCompare(b.startTime))
RECURSIVE sortRowsFrom(_, _, _)
sortRowsFrom(rows, i, sorted) ==
  IF i > Len(rows) THEN sorted
  ELSE TheOnly({sortRowsFrom(rows, i + 1, longer) :
                  longer \in {insertByStartTime(sorted, rows[i])}})

sortByStartTime(rows) ==
  TheOnly({sortRowsFrom(list, 1, <<>>) : list \in {rows}})

(***************************************************************************)
(* Inputs                                                                  *)
(***************************************************************************)
\* the longest entry list handed to one call
MaxEntries == 4

\* the largest splitCount
MaxSplit == 3

\* data rows of an entry list: class, name, affiliation, card, rentals
Roster ==
  <<[class |-> <<"M">>, name1 |-> <<"a">>, affiliation |-> <<"X">>,
     cardNumber |-> <<"7">>, rentalCount |-> <<>>],
    [class |-> <<"M">>, name1 |-> <<"b", FWSP, "c">>,
     affiliation |-> <<"X", "/", "Y">>,
     cardNumber |-> <<>>, rentalCount |-> <<"1">>],
    [class |-> <<"M">>, name1 |-> <<"N", "3">>, affiliation |-> <<"y", "1">>,
     cardNumber |-> <<>>, rentalCount |-> <<>>],
    [class |-> <<"M">>, name1 |-> <<"d">>, affiliation |-> <<"-">>,
     cardNumber |-> <<"8">>, rentalCount |-> <<"1">>],
    [class |-> <<"M">>, name1 |-> <<"a">>, affiliation |-> <<>>,
     cardNumber |-> <<>>, rentalCount |-> <<>>],
    [class |-> <<"M">>, name1 |-> <<"e">>, affiliation |-> <<"X">>,
     cardNumber |-> <<>>, rentalCount |-> <<>>]>>

RosterEntries == parseEntries(Roster)

\* the sequences without repetition over S, of length at most n
RECURSIVE DistinctSeqs(_, _)
DistinctSeqs(S, n) ==
  IF n = 0 THEN {<<>>}
  ELSE LET shorter == DistinctSeqs(S, n - 1)
           longer == {Append(s, x) : s \in shorter, x \in S}
       IN  shorter \cup {s \in longer :
                           \A i \in 1..(Len(s) - 1) : s[i] # s[Len(s)]}

EntryLists ==
  DistinctSeqs({RosterEntries[i] :
                  i \in 1..(IF MaxEntries + 1 < Len(RosterEntries)
                            THEN MaxEntries + 1 ELSE Len(RosterEntries))},
               MaxEntries)

\* rank lookups (Maps, in insertion order): none, exact keys, a key that
\* matches only after normalization, tied ranks
RankLookups ==
  {<<>>,
   <<<<<<"a">>, 2>>, <<<<"d">>, 1>>>>,
   <<<<<<"n", " ", "3">>, 1>>, <<<<"b", "c">>, 1>>, <<<<"e">>, 3>>>>,
   <<<<<<"a">>, 1>>, <<<<"B", "C">>, 2>>, <<<<"N", "3">>, 3>>,
     <<<<"d">>, 4>>, <<<<"e">>, 5>>>>}

(***************************************************************************)
(* State: the arguments of one call of an exported function (for           *)
(* generateStartList, the application state handleGenerate passes), what   *)
(* it returned (for generateStartList, the start list kept in the          *)
(* application state), and the record of the generation runs made so far   *)
(***************************************************************************)
VARIABLES call, ret, runs

vars == <<call, ret, runs>>

Pending == [state |-> "pending"]

Returned(value) == [state |-> "returned", value |-> value]

Thrown == [state |-> "thrown"]

(***************************************************************************)
(* splitClassByRanking called on every input                               *)
(***************************************************************************)
\* six entries r4, r1, r6, r2, r5, r3, and the lookup that ranks entry rk
\* as k
SixRanked ==
  parseEntries([i \in 1..6 |->
                  [class |-> <<"M">>,
                   name1 |-> <<"r", DigitChars[<<4, 1, 6, 2, 5, 3>>[i] + 1]>>,
                   affiliation |-> <<>>, cardNumber |-> <<>>,
                   rentalCount |-> <<>>]])

SixRanks ==
  [i \in 1..6 |-> <<<<"r", DigitChars[<<3, 1, 2, 6, 5, 4>>[i] + 1]>>,
                    <<3, 1, 2, 6, 5, 4>>[i]>>]

InitSplit ==
  /\ call \in [op : {"splitClassByRanking"}, entries : EntryLists,
               splitCount : 0..MaxSplit, rankings : RankLookups, seed : Seeds]
             \cup [op : {"splitClassByRanking"}, entries : {SixRanked},
                   splitCount : 1..MaxSplit, rankings : {SixRanks},
                   seed : Seeds]
  /\ ret = Pending
  /\ runs = <<>>

CallSplit ==
  /\ call.op = "splitClassByRanking"
  /\ ret = Pending
  /\ ~splitClassThrows(call.entries, call.splitCount)
  /\ ret' = Returned(splitClassByRanking(call.entries, call.splitCount,
                                         call.rankings, call.seed))
  /\ UNCHANGED <<call, runs>>

CallSplitThrows ==
  /\ call.op = "splitClassByRanking"
  /\ ret = Pending
  /\ splitClassThrows(call.entries, call.splitCount)
  /\ ret' = Thrown
  /\ UNCHANGED <<call, runs>>

NextSplit == CallSplit \/ CallSplitThrows

SpecSplit == InitSplit /\ [][NextSplit]_vars

RECURSIVE Flatten(_)
Flatten(groups) ==
  IF groups = <<>> THEN <<>> ELSE Head(groups) \o Flatten(Tail(groups))

Count(s, x) == Cardinality({i \in 1..Len(s) : s[i] = x})

IsPermutation(a, b) ==
  /\ Len(a) = Len(b)
  /\ \A x \in Range(a) \cup Range(b) : Count(a, x) = Count(b, x)

\* C1: for every entry list, rank lookup, seed and splitCount > 1,
\* splitClassByRanking returns exactly splitCount groups whose concatenation
\* is a permutation of the input, and any two group sizes differ by at most 1
C1_SplitIsBalancedPermutation ==
  (call.op = "splitClassByRanking" /\ call.splitCount > 1 /\ ret # Pending)
  => /\ ret.state = "returned"
     /\ Len(ret.value) = call.splitCount
     /\ IsPermutation(Flatten(ret.value), call.entries)
     /\ \A i, j \in 1..Len(ret.value) :
          Len(ret.value[i]) - Len(ret.value[j]) <= 1

\* a split in three of four entries, ranked and unranked ones among them
C1_Witness ==
  /\ call.op = "splitClassByRanking"
  /\ ret.state = "returned"
  /\ call.splitCount = 3
  /\ Len(call.entries) = 4
  /\ rankedOf(call.entries, call.rankings) # <<>>
  /\ Len(unrankedOf(call.entries, call.rankings)) >= 2
  /\ Len(ret.value[1]) = 2

\* C22: splitClassByRanking raises no error on a degenerate splitCount:
\* with splitCount <= 1 and entries it returns one group holding all the
\* entries, and with no entries it returns splitCount empty groups
C22_DegenerateSplitReturns ==
  (call.op = "splitClassByRanking" /\ ret # Pending)
  => /\ ret.state = "returned"
     /\ (call.splitCount <= 1 /\ call.entries # <<>>)
        => Len(ret.value) = 1 /\ IsPermutation(ret.value[1], call.entries)
     /\ call.entries = <<>>
        => ret.value = [i \in 1..call.splitCount |-> <<>>]

\* the group of the returned split that holds the entry, and its place there
groupHolding(groups, entry) ==
  CHOOSE g \in 1..Len(groups) : \E k \in 1..Len(groups[g]) : groups[g][k] = entry

placeIn(group, entry) == CHOOSE k \in 1..Len(group) : group[k] = entry

\* C23: every unranked entry, in the seeded shuffled order and after the
\* ranked entries are placed, is appended to a group that has the fewest
\* members at that moment, the lowest-numbered one among several
C23_UnrankedToSmallestGroup ==
  (call.op = "splitClassByRanking" /\ ret.state = "returned" /\ call.splitCount >= 1)
  => LET n == call.splitCount
         ranked == Len(rankedOf(call.entries, call.rankings))
         shuffled == shuffleArray(unrankedOf(call.entries, call.rankings), createRng(call.seed))
         placed(t) == groupHolding(ret.value, shuffled[t])
         \* the members of group g when the t-th unranked entry is placed
         sizeAt(t, g) == Cardinality({p \in 1..ranked : (p - 1) % n = g - 1})
                         + Cardinality({u \in 1..(t - 1) : placed(u) = g})
     IN  \A t \in 1..Len(shuffled) :
           /\ \A g \in 1..n : sizeAt(t, placed(t)) <= sizeAt(t, g)
           /\ \A g \in 1..(placed(t) - 1) : sizeAt(t, g) > sizeAt(t, placed(t))
           /\ placeIn(ret.value[placed(t)], shuffled[t]) = sizeAt(t, placed(t)) + 1

\* one ranked entry in the first of three groups; the unranked entries fill
\* the second and the third group before the first
C23_Witness ==
  /\ call.op = "splitClassByRanking"
  /\ ret.state = "returned"
  /\ call.splitCount = 3
  /\ Len(rankedOf(call.entries, call.rankings)) = 1
  /\ Len(unrankedOf(call.entries, call.rankings)) = 3
  /\ Len(ret.value[1]) = 2
  /\ Len(ret.value[2]) = 1
  /\ Len(ret.value[3]) = 1
  /\ ret.value[1][2] = shuffleArray(unrankedOf(call.entries, call.rankings), createRng(call.seed))[3]
  /\ ret.value[1][2] # unrankedOf(call.entries, call.rankings)[3]

\* the names of the entries of a group
namesOf(group) == [i \in 1..Len(group) |-> group[i].name1]

\* C12: the ranked entries are taken in ascending order of rank, and the
\* entry at position p (from 1) of that order is placed in group
\* (p - 1) mod splitCount, behind the ranked entries placed there before it;
\* with ranks 1..6 and splitCount = 2, group 0 holds ranks 1, 3, 5 and
\* group 1 holds ranks 2, 4, 6
C12_RankedRoundRobin ==
  (call.op = "splitClassByRanking" /\ ret.state = "returned")
  => LET ranked == sortByRank(rankedOf(call.entries, call.rankings))
         n == call.splitCount
     IN  /\ IsPermutation(ranked, rankedOf(call.entries, call.rankings))
         /\ \A p \in 1..(Len(ranked) - 1) :
              ranked[p].rank <= ranked[p + 1].rank
         /\ \A p \in 1..Len(ranked) :
              /\ Len(ret.value[((p - 1) % n) + 1]) >= ((p - 1) \div n) + 1
              /\ ret.value[((p - 1) % n) + 1][((p - 1) \div n) + 1]
                 = ranked[p].entry
         /\ (call.entries = SixRanked /\ n = 2)
            => /\ namesOf(ret.value[1])
                  = <<<<"r", "1">>, <<"r", "3">>, <<"r", "5">>>>
               /\ namesOf(ret.value[2])
                  = <<<<"r", "2">>, <<"r", "4">>, <<"r", "6">>>>

\* the six ranked entries split in two
C12_Witness ==
  /\ call.op = "splitClassByRanking"
  /\ ret.state = "returned"
  /\ call.entries = SixRanked
  /\ call.splitCount = 2
  /\ Len(ret.value[1]) = 3
(***************************************************************************)
(* shuffleAvoidingConsecutiveAffiliations called on every input            *)
(***************************************************************************)
\* the largest maxAttempts
MaxAttempts == 3

AttemptLimits == 0..MaxAttempts

\* entries of one club, written in different ways
SameClubRoster ==
  [i \in 1..5 |->
     [class |-> <<"M">>, name1 |-> <<"s", DigitChars[i + 1]>>,
      affiliation |-> <<<<"X">>, <<"X", "1">>, <<"x", "/", "Y">>,
                        <<"X", " ">>, <<"Y", ",", "x", "2">>>>[i],
      cardNumber |-> <<>>, rentalCount |-> <<>>]]

SameClubLists ==
  {parseEntries(SubSeq(SameClubRoster, 1, n)) :
     n \in 1..(IF MaxEntries < 5 THEN MaxEntries ELSE 5)}

InitShuffle ==
  /\ call \in [op : {"shuffleAvoidingConsecutiveAffiliations"},
               entries : EntryLists \cup SameClubLists,
               maxAttempts : AttemptLimits, seed : Seeds]
  /\ ret = Pending
  /\ runs = <<>>

CallShuffle ==
  /\ call.op = "shuffleAvoidingConsecutiveAffiliations"
  /\ ret = Pending
  /\ ret' = Returned(shuffleAvoidingConsecutiveAffiliations(
                       call.entries, call.maxAttempts, call.seed))
  /\ UNCHANGED <<call, runs>>

NextShuffle == CallShuffle

SpecShuffle == InitShuffle /\ [][NextShuffle]_vars

C2_ShuffleIsPermutation ==
  (call.op = "shuffleAvoidingConsecutiveAffiliations" /\ ret # Pending)
  => /\ ret.state = "returned"
     /\ IsPermutation(ret.value, call.entries)

\* every entry of the list has one and the same token
ShareOneToken(entries) ==
  /\ entries # <<>>
  /\ \E token \in Range(getAffiliationsForCheck(entries[1])) :
       \A i \in 1..Len(entries) :
         token \in Range(getAffiliationsForCheck(entries[i]))

\* the orders of a list of distinct entries
OrderingsOf(entries) ==
  {order \in DistinctSeqs(Range(entries), Len(entries)) :
     Len(order) = Len(entries)}

\* C13: when all entries of a course share one affiliation token, every
\* ordering of them has exactly count - 1 adjacent overlapping pairs, and
\* the ordering shuffleAvoidingConsecutiveAffiliations returns has exactly
\* count - 1 of them
C13_SharedTokenFloor ==
  (/\ call.op = "shuffleAvoidingConsecutiveAffiliations"
   /\ ret.state = "returned"
   /\ ShareOneToken(call.entries))
  => /\ \A order \in OrderingsOf(call.entries) :
          countConsecutiveConflicts(order) = Len(call.entries) - 1
     /\ countConsecutiveConflicts(ret.value) = Len(call.entries) - 1

\* four entries of one club, searched for three rounds
C13_Witness ==
  /\ call.op = "shuffleAvoidingConsecutiveAffiliations"
  /\ ret.state = "returned"
  /\ ShareOneToken(call.entries)
  /\ Len(call.entries) = 4
  /\ call.maxAttempts = 3
  /\ countConsecutiveConflicts(ret.value) = 3

C2_Witness ==
  /\ call.op = "shuffleAvoidingConsecutiveAffiliations"
  /\ ret.state = "returned"
  /\ Len(call.entries) >= 3
  /\ countConsecutiveConflicts(call.entries) > 0
  /\ countConsecutiveConflicts(ret.value) = 0
  /\ ret.value # call.entries

(***************************************************************************)
(* shuffleAvoidingConsecutiveAffiliations called again and again           *)
(***************************************************************************)
\* the most calls recorded
MaxCalls == 3

\* the entry lists shuffled again and again: runs of neighbours in the
\* imported roster, and the rows of one club
ReshuffleLists ==
  LET last == IF MaxEntries + 1 < Len(RosterEntries) THEN MaxEntries + 1 ELSE Len(RosterEntries)
  IN  {SubSeq(RosterEntries, ab[1], ab[2]) : ab \in {p \in (1..last) \X (1..last) : p[2] - p[1] < MaxEntries}} \cup SameClubLists

InitReshuffle ==
  /\ call \in [op : {"shuffleAvoidingConsecutiveAffiliations"}, entries : ReshuffleLists, maxAttempts : AttemptLimits, seed : Seeds]
  /\ ret = Pending
  /\ runs = <<>>

\* a call that finds the entries in the order the call before left them
ShuffledFromEarlier ==
  shuffleAvoidingConsecutiveAffiliations(
    IF runs = <<>> THEN call.entries ELSE runs[Len(runs)].result,
    call.maxAttempts, call.seed)

\* what the call returns
Shuffled ==
  shuffleAvoidingConsecutiveAffiliations(call.entries, call.maxAttempts,
                                         call.seed)

\* one more call on the arguments at hand; the entries passed are not
\* written to (shuffleArray and greedyOrderByAffiliation work on copies)
ShuffleAgain ==
  /\ call.op = "shuffleAvoidingConsecutiveAffiliations"
  /\ Len(runs) < MaxCalls
  /\ \E result \in {Shuffled} :
       /\ ret' = Returned(result)
       /\ runs' = Append(runs, [args |-> call, result |-> result])
  /\ UNCHANGED call

\* the caller takes another seed for the calls to come
TakeSeed ==
  /\ call.op = "shuffleAvoidingConsecutiveAffiliations"
  /\ \E seed \in Seeds \ {call.seed} : call' = [call EXCEPT !.seed = seed]
  /\ UNCHANGED <<ret, runs>>

NextReshuffle == ShuffleAgain \/ TakeSeed

SpecReshuffle == InitReshuffle /\ [][NextReshuffle]_vars

MaxAffLen == 3

AffAlphabet == {"a", "B", "1", "/", "-", MINUS, " "}

RECURSIVE TextsUpTo(_, _)
TextsUpTo(alphabet, n) ==
  IF n = 0 THEN {<<>>}
  ELSE LET shorter == TextsUpTo(alphabet, n - 1)
       IN  shorter \cup {Append(s, c) : s \in shorter, c \in alphabet}

AffCells == TextsUpTo(AffAlphabet, MaxAffLen)

\* affs1.filter((a) => affs2.includes(a)) of checkConflicts
commonAffs(row1, row2) ==
  LET affs1 == parseAffiliationsFromEntry(row1)
      affs2 == parseAffiliationsFromEntry(row2)
  IN  {affs1[i] : i \in {k \in 1..Len(affs1) : affs1[k] \in Range(affs2)}}

\* the two entries imported from two rows with the given affiliation cells
importPair(cells) ==
  parseEntries(<<[class |-> <<"M">>, name1 |-> <<"a">>,
                  affiliation |-> cells[1],
                  cardNumber |-> <<>>, rentalCount |-> <<>>],
                 [class |-> <<"M">>, name1 |-> <<"b">>,
                  affiliation |-> cells[2],
                  cardNumber |-> <<>>, rentalCount |-> <<>>]>>)

InitAff ==
  /\ call \in [op : {"hasAffiliationOverlap"}, cells : AffCells \X AffCells]
  /\ ret = Pending
  /\ runs = <<>>

CompareAffiliations ==
  /\ call.op = "hasAffiliationOverlap"
  /\ ret = Pending
  /\ LET entries == importPair(call.cells)
         row1 == [affiliation |-> rowAffiliation(entries[1])]
         row2 == [affiliation |-> rowAffiliation(entries[2])]
     IN  ret' = Returned([shuffler |-> hasAffiliationOverlap(entries[1],
                                                            entries[2]),
                          detector |-> commonAffs(row1, row2) # {}])
  /\ UNCHANGED <<call, runs>>

NextAff == CompareAffiliations

SpecAff == InitAff /\ [][NextAff]_vars

\* C9: the shuffler and the conflict detector decide 'same affiliation'
\* identically: hasAffiliationOverlap on two entries is true exactly when the
\* token lists parseAffiliationsFromEntry derives from their schedule rows
\* have a common token
C9_ShufflerAgreesWithDetector ==
  (call.op = "hasAffiliationOverlap" /\ ret.state = "returned")
  => ret.value.shuffler = ret.value.detector

\* C10: overlaps(a, b) is true exactly when the normalized token sets of a
\* and b intersect, and an entry whose raw affiliation is empty or a
\* placeholder ('-', U+2212, U+2015) overlaps no entry, not even another
\* entry with the same placeholder
C10_PlaceholderOverlapsNothing ==
  (call.op = "hasAffiliationOverlap" /\ ret.state = "returned")
  => LET entries == importPair(call.cells)
         tokens1 == Range(getAffiliationsForCheck(entries[1]))
         tokens2 == Range(getAffiliationsForCheck(entries[2]))
     IN  /\ ret.value.shuffler = (tokens1 \cap tokens2 # {})
         /\ (\E i \in 1..2 : call.cells[i] \in HyphenMarkers \cup {<<>>})
            => ~ret.value.shuffler
(***************************************************************************)
(* generateStartListForLane called on every input                          *)
(***************************************************************************)
\* the most courses in one lane
MaxLaneCourses == 3

\* the largest interval between two starts, in minutes
MaxInterval == 2

\* the largest inter-course gap, in minutes
MaxGap == 1

\* the entries the lane's courses are cut from
LanePool ==
  <<RosterEntries[1], RosterEntries[4], RosterEntries[2], RosterEntries[5],
    RosterEntries[3], RosterEntries[6]>>

\* the ways to cut a list into c consecutive parts, empty parts allowed
RECURSIVE Segmentations(_, _)
Segmentations(list, c) ==
  IF c = 1 THEN {<<list>>}
  ELSE UNION {{<<SubSeq(list, 1, k)>> \o rest :
                 rest \in Segmentations(SubSeq(list, k + 1, Len(list)),
                                        c - 1)} : k \in 0..Len(list)}

\* the courses of a lane made of the given entry lists; reversed gives
\* them orders that put them in the opposite order
laneCourses(parts, reversed) ==
  [j \in 1..Len(parts) |->
     [id |-> <<"C", DigitChars[j + 1]>>,
      name |-> <<"C", DigitChars[j + 1]>>,
      originalClass |-> <<"M">>,
      splitNumber |-> 0,
      entries |-> parts[j],
      order |-> IF reversed THEN <<Len(parts) - j>> ELSE <<>>]]

LaneCourseLists ==
  UNION {{laneCourses(parts, reversed) :
            parts \in Segmentations(SubSeq(LanePool, 1, n), c),
            reversed \in BOOLEAN} :
           n \in 0..MaxEntries, c \in 1..MaxLaneCourses}

LaneStarts ==
  {[startTime |-> <<"1", "0", ":", "0", "0">>, startNumber |-> 100],
   [startTime |-> <<"9", ";", "5", "8">>, startNumber |-> 1],
   [startTime |-> <<"2", "3", ":", "5", "9">>, startNumber |-> 1]}

Lanes ==
  {[id |-> "lane-1", name |-> <<"L", "1">>, startTime |-> s.startTime,
    startNumber |-> s.startNumber, interval |-> i, interCourseGap |-> g,
    affiliationSplit |-> a, courseIds |-> <<>>] :
     s \in LaneStarts, i \in {-1} \cup (1..MaxInterval), g \in 0..MaxGap,
     a \in BOOLEAN}

TheArea == [id |-> "area-1", name |-> <<"S", "1">>]

InitLane ==
  /\ call \in [op : {"generateStartListForLane"}, courses : LaneCourseLists,
               lane : Lanes, seed : Seeds]
  /\ ret = Pending
  /\ runs = <<>>

CallLane ==
  /\ call.op = "generateStartListForLane"
  /\ ret = Pending
  /\ ret' = Returned(generateStartListForLane(
                       call.courses, call.lane, TheArea,
                       call.lane.affiliationSplit, call.seed))
  /\ UNCHANGED <<call, runs>>

NextLane == CallLane

SpecLane == InitLane /\ [][NextLane]_vars

\* the minutes a schedule row's start time stands for, read as
\* checkConflicts reads it
rowMinutes(row) == parseTimeToMinutes(SubSeq(row.startTime, 1, 5))

\* the number of rows in the first k courses of the lane, in start order
RECURSIVE rowsBefore(_, _)
rowsBefore(sortedCourses, k) ==
  IF k = 0 THEN 0
  ELSE Len(sortedCourses[k].entries) + rowsBefore(sortedCourses, k - 1)

LaneReturned == call.op = "generateStartListForLane" /\ ret.state = "returned"

\* C3: the row at running position k of the lane (from 0, across all of its
\* courses) has bib = startNumber + k and, where no inter-course gap comes
\* before it, startTime = lane.startTime + k * interval; start 10:00,
\* startNumber 100, interval 2 and one course of 3 entries gives bibs 100,
\* 101, 102 at 10:00, 10:02, 10:04
C3_RunningOffsetGivesBibAndTime ==
  LaneReturned
  => LET rows == ret.value
         lane == call.lane
         first == rowsBefore(sortByOrder(call.courses), 1)
     IN  /\ \A k \in 0..(Len(rows) - 1) :
              /\ rows[k + 1].startNumber = lane.startNumber + k
              /\ (lane.interCourseGap = 0 \/ k < first)
                 => /\ rowMinutes(rows[k + 1])
                       = parseTimeToMinutes(lane.startTime)
                         + k * lane.interval
                    /\ rows[k + 1].startTime
                       = formatTime(parseTimeToMinutes(lane.startTime)
                                    + k * lane.interval)
         /\ (/\ lane.startTime = <<"1", "0", ":", "0", "0">>
             /\ lane.startNumber = 100
             /\ lane.interval = 2
             /\ Len(call.courses) = 1
             /\ Len(call.courses[1].entries) = 3)
            => /\ [k \in 1..3 |-> rows[k].startNumber] = <<100, 101, 102>>
               /\ [k \in 1..3 |-> SubSeq(rows[k].startTime, 1, 5)]
                  = <<<<"1", "0", ":", "0", "0">>, <<"1", "0", ":", "0", "2">>,
                      <<"1", "0", ":", "0", "4">>>>

\* a lane of two non-empty courses whose second course continues the count
C3_Witness ==
  /\ LaneReturned
  /\ Len(call.courses) = 2
  /\ Len(call.courses[1].entries) = 2
  /\ Len(call.courses[2].entries) = 2
  /\ call.lane.interval = 2
  /\ call.lane.interCourseGap = 0
  /\ call.lane.startNumber = 100
  /\ ret.value[3].startNumber = 102
  /\ ret.value[3].startTime = <<"1", "0", ":", "0", "4", ":", "0", "0">>
  /\ ret.value[3].className # ret.value[2].className

\* C4: in a lane with at least two non-empty courses and an inter-course
\* gap g > 0, the first entry of each course after the first starts (at
\* least) g minutes later than it would with g = 0
C4_GapDelaysLaterCourses ==
  LaneReturned
  => LET sorted == sortByOrder(call.courses)
         rows == ret.value
         rows0 == generateStartListForLane(
                    call.courses, [call.lane EXCEPT !.interCourseGap = 0],
                    TheArea, call.lane.affiliationSplit, call.seed)
     IN  \A j \in 2..Len(sorted) :
           (/\ call.lane.interCourseGap > 0
            /\ sorted[j].entries # <<>>
            /\ rowsBefore(sorted, j - 1) > 0)
           => rowMinutes(rows[rowsBefore(sorted, j - 1) + 1])
              >= rowMinutes(rows0[rowsBefore(sorted, j - 1) + 1])
                 + call.lane.interCourseGap

\* C5: within one lane's output, for a positive interval, both the bib and
\* the start time are strictly increasing with the generated position,
\* across course boundaries as well as inside a course
C5_BibAndTimeStrictlyIncrease ==
  (LaneReturned /\ call.lane.interval > 0)
  => \A k \in 1..(Len(ret.value) - 1) :
       /\ ret.value[k].startNumber < ret.value[k + 1].startNumber
       /\ rowMinutes(ret.value[k]) < rowMinutes(ret.value[k + 1])

\* three courses, the middle one empty, in a lane that passes midnight
C5_Witness ==
  /\ LaneReturned
  /\ call.lane.interval = 1
  /\ Len(call.courses) = 3
  /\ call.courses[2].entries = <<>>
  /\ Len(ret.value) = 4
  /\ ret.value[1].className # ret.value[4].className
  /\ ret.value[1].startTime = <<"2", "3", ":", "5", "9", ":", "0", "0">>
  /\ ret.value[4].startTime = <<"2", "4", ":", "0", "2", ":", "0", "0">>

\* the place of course j of the lane in the lane's course order: after the
\* courses of smaller order and the courses of equal order passed before it
coursePlace(courses, j) ==
  1 + Cardinality({i \in 1..Len(courses) :
                     \/ orderOf(courses[i]) < orderOf(courses[j])
                     \/ orderOf(courses[i]) = orderOf(courses[j]) /\ i < j})

\* the number of rows of the courses placed before place p
rowsAhead(courses, p) ==
  LET ahead == {i \in 1..Len(courses) : coursePlace(courses, i) < p}
      sizes == [i \in 1..Len(courses) |-> IF i \in ahead THEN Len(courses[i].entries) ELSE 0]
      sum[k \in 0..Len(courses)] == IF k = 0 THEN 0 ELSE sum[k - 1] + sizes[k]
  IN  sum[Len(courses)]

\* what a row shows of the entry it was made from
entryShown(entry) ==
  [name1 |-> entry.name1, cardNumber |-> entry.cardNumber, affiliation |-> rowAffiliation(entry)]

rowShown(row) ==
  [name1 |-> row.name1, cardNumber |-> row.cardNumber, affiliation |-> row.affiliation]

\* C19: in a lane's output the rows of each course are one block of
\* consecutive positions, the blocks follow the lane's course order, and
\* the block of a course holds exactly the entries of that course, whatever
\* order the shuffle gave them
C19_CourseBlocks ==
  LaneReturned
  => LET courses == call.courses
         rows == ret.value
     IN  /\ Len(rows) = rowsAhead(courses, Len(courses) + 1)
         /\ \A j \in 1..Len(courses) :
              LET from == rowsAhead(courses, coursePlace(courses, j))
                  block == SubSeq(rows, from + 1, from + Len(courses[j].entries))
              IN  /\ \A k \in 1..Len(block) : block[k].className = courses[j].name
                  /\ IsPermutation([k \in 1..Len(block) |-> rowShown(block[k])],
                                   [k \in 1..Len(courses[j].entries) |->
                                      entryShown(courses[j].entries[k])])

\* two courses with entries, passed against their order, the entries of
\* the course that starts first put in another order by the shuffle
C19_Witness ==
  /\ LaneReturned
  /\ Len(call.courses) = 2
  /\ orderOf(call.courses[2]) < orderOf(call.courses[1])
  /\ call.courses[1].entries # <<>>
  /\ Len(call.courses[2].entries) >= 2
  /\ ret.value[1].className = call.courses[2].name
  /\ rowShown(ret.value[1]) # entryShown(call.courses[2].entries[1])
  /\ ret.value[Len(ret.value)].className = call.courses[1].name

(***************************************************************************)
(* handleGenerate: generateStartList on the application state              *)
(***************************************************************************)
\* the most entries in the imported list
MaxGenEntries == 5

\* the most generation runs recorded
MaxRuns == 2

\* a start list that begins with the rows of the run before
LeftoverStartList == IF ret.state = "returned" THEN ret.value ELSE <<>>

\* const startList: StartListEntry[] = []
NewStartList == <<>>

generateStartList(courses, startAreas, entries, constraints, seed) ==
  TheOnly({TheOnly({sortByStartTime(
                      NewStartList
                      \o allLaneRows(places, populatedCourses, constraints,
                                     seed)) :
                      populatedCourses \in {populateAll(places, courses,
                                                        entries, seed)}}) :
             places \in {lanesInOrder(startAreas)}})

\* data rows of three classes, one of them named like the id of a split
\* course of another ("M-1"); no two entries of a class share a club
GenRoster ==
  <<[class |-> <<"M">>, name1 |-> <<"m", "1">>, affiliation |-> <<"X">>,
     cardNumber |-> <<>>, rentalCount |-> <<"1">>],
    [class |-> <<"M">>, name1 |-> <<"m", "2">>, affiliation |-> <<"Y">>,
     cardNumber |-> <<"8">>, rentalCount |-> <<>>],
    [class |-> <<"W">>, name1 |-> <<"w", "1">>, affiliation |-> <<"-">>,
     cardNumber |-> <<"7">>, rentalCount |-> <<>>],
    [class |-> <<"M">>, name1 |-> <<"m", "3">>, affiliation |-> <<>>,
     cardNumber |-> <<>>, rentalCount |-> <<>>],
    [class |-> <<"M", "-", "1">>, name1 |-> <<"k", "1">>,
     affiliation |-> <<"X">>, cardNumber |-> <<"5">>, rentalCount |-> <<>>],
    [class |-> <<"W">>, name1 |-> <<"w", "2">>, affiliation |-> <<"X">>,
     cardNumber |-> <<>>, rentalCount |-> <<>>]>>

GenEntryLists ==
  {parseEntries(SubSeq(GenRoster, 1, n)) :
     n \in 0..(IF MaxGenEntries < Len(GenRoster) THEN MaxGenEntries
               ELSE Len(GenRoster))}

\* the class lists after the class step: class M is split in two or not
ClassConfigs(entries) ==
  LET classes == detectClasses(entries)
  IN  {classes} \cup {[classes EXCEPT ![k].shouldSplit = TRUE] :
                        k \in {i \in 1..Len(classes) :
                                 classes[i].name = <<"M">>}}

\* two start areas, the first with two lanes; lanes 1 and 3 start together
Venue(ids1, ids2, ids3) ==
  <<[id |-> "area-1", name |-> <<"S", "1">>,
     lanes |-> <<[id |-> "lane-1", name |-> <<"L", "1">>,
                  startTime |-> <<"1", "0", ":", "0", "0">>,
                  startNumber |-> 1, interval |-> 2, interCourseGap |-> 0,
                  affiliationSplit |-> TRUE, courseIds |-> ids1],
                 [id |-> "lane-2", name |-> <<"L", "2">>,
                  startTime |-> <<"1", "0", ":", "0", "1">>,
                  startNumber |-> 101, interval |-> 1, interCourseGap |-> 0,
                  affiliationSplit |-> FALSE, courseIds |-> ids2]>>],
    [id |-> "area-2", name |-> <<"S", "2">>,
     lanes |-> <<[id |-> "lane-3", name |-> <<"L", "1">>,
                  startTime |-> <<"1", "0", ":", "0", "0">>,
                  startNumber |-> 201, interval |-> 2, interCourseGap |-> 0,
                  affiliationSplit |-> TRUE, courseIds |-> ids3]>>]>>

\* the ids of the courses put in lane k by the placement, in course order
RECURSIVE idsPlaced(_, _, _, _)
idsPlaced(courses, placement, k, i) ==
  IF i > Len(courses) THEN <<>>
  ELSE IF placement[i] = k
       THEN <<courses[i].id>> \o idsPlaced(courses, placement, k, i + 1)
       ELSE idsPlaced(courses, placement, k, i + 1)

\* every way to leave each course out (0) or put it in one of three lanes;
\* a lane's courseIds holds the id of each course put there
Venues(courses) ==
  {Venue(idsPlaced(courses, placement, 1, 1),
         idsPlaced(courses, placement, 2, 1),
         idsPlaced(courses, placement, 3, 1)) :
     placement \in [1..Len(courses) -> 0..3]}

\* the arguments handleGenerate passes for one list of courses
GenCallsOf(courses, entries) ==
  {[op |-> "generateStartList",
    courses |-> courses,
    startAreas |-> startAreas,
    entries |-> entries,
    constraints |-> [avoidSameClubConsecutive |-> avoid],
    seed |-> seed] :
     startAreas \in Venues(courses), avoid \in BOOLEAN, seed \in Seeds}

GenCalls ==
  UNION {UNION {UNION {GenCallsOf(courses, entries) :
                         courses \in {generateCourses(classes, entries)}} :
                  classes \in ClassConfigs(entries)} :
           entries \in GenEntryLists}

InitGen ==
  /\ call \in GenCalls
  /\ ret = Pending
  /\ runs = <<>>

\* handleGenerate: the list is generated and stored (SET_START_LIST)
Generate ==
  /\ call.op = "generateStartList"
  /\ Len(runs) < MaxRuns
  /\ \E startList \in {generateStartList(call.courses, call.startAreas,
                                          call.entries, call.constraints,
                                          call.seed)} :
       /\ ret' = Returned(startList)
       /\ runs' = Append(runs, [args |-> call, startList |-> startList])
  /\ UNCHANGED call

\* the seed field of the settings is edited (SET_GLOBAL_SETTINGS)
SetSeed ==
  /\ call.op = "generateStartList"
  /\ \E seed \in Seeds \ {call.seed} : call' = [call EXCEPT !.seed = seed]
  /\ UNCHANGED <<ret, runs>>

NextGen == Generate \/ SetSeed

SpecGen == InitGen /\ [][NextGen]_vars

\* the course ids the lanes hold, in the order of the lanes
placedIds(args) ==
  LET places == lanesInOrder(args.startAreas)
  IN  Flatten([k \in 1..Len(places) |-> places[k].lane.courseIds])

courseIdsOf(args) == [i \in 1..Len(args.courses) |-> args.courses[i].id]

\* every course is placed in exactly one lane: the lanes hold, between them,
\* one id for each course
EveryCoursePlacedOnce(args) == IsPermutation(placedIds(args), courseIdsOf(args))

\* C18: generateStartList returns no schedule when a course is assigned to
\* no lane or a lane holds the id of a course that does not exist: every
\* schedule returned comes from a call in which each course id is held by a
\* lane and each id held by a lane is the id of a course
C18_NoScheduleForUnplacedCourse ==
  \A k \in 1..Len(runs) :
    Range(courseIdsOf(runs[k].args)) = Range(placedIds(runs[k].args))

\* the rows are the entries, one row each, and the row of an entry is in a
\* course of the entry's class
OneRowPerEntry(run) ==
  LET rows == run.startList
      entries == run.args.entries
      courses == run.args.courses
  IN  /\ IsPermutation([i \in 1..Len(rows) |-> rows[i].name1],
                       [i \in 1..Len(entries) |-> entries[i].name1])
      /\ \A i \in 1..Len(rows) :
           \E e \in 1..Len(entries), c \in 1..Len(courses) :
             /\ entries[e].name1 = rows[i].name1
             /\ courses[c].name = rows[i].className
             /\ courses[c].originalClass = entries[e].className

\* C6: when every course is placed in exactly one lane, generateStartList
\* returns exactly one row per input entry: an unsplit course gives every
\* entry of its class once, and the courses of a split class get disjoint
\* groups that together cover the class.
\* Violated: generateCourses gives course k of a split class M the id "M-k",
\* and an unsplit class its name as id.  With a class named "M-1" two courses
\* have the id "M-1"; courses.find returns the first of them for both, so the
\* first group of M is scheduled twice and the class "M-1" never.
C6_OneRowPerEntry ==
  \A k \in 1..Len(runs) :
    EveryCoursePlacedOnce(runs[k].args) => OneRowPerEntry(runs[k])

\* the same for the runs whose courses have pairwise distinct ids; this holds
DistinctIdsGiveOneRowPerEntry ==
  \A k \in 1..Len(runs) :
    (/\ EveryCoursePlacedOnce(runs[k].args)
     /\ \A i, j \in 1..Len(runs[k].args.courses) :
          i # j => runs[k].args.courses[i].id # runs[k].args.courses[j].id)
    => OneRowPerEntry(runs[k])

\* a run with a split class of three, every course placed once, one row per
\* entry
DistinctIdsWitness ==
  \E k \in 1..Len(runs) :
    /\ EveryCoursePlacedOnce(runs[k].args)
    /\ Len(runs[k].args.entries) = 4
    /\ \E c \in 1..Len(runs[k].args.courses) :
         runs[k].args.courses[c].splitNumber = 2
    /\ \A i, j \in 1..Len(runs[k].args.courses) :
         i # j => runs[k].args.courses[i].id # runs[k].args.courses[j].id
    /\ Len(runs[k].startList) = 4

\* every lane's output, one lane after the other, before the sort
laneOutputs(args) ==
  allLaneRows(lanesInOrder(args.startAreas),
              populateAll(lanesInOrder(args.startAreas), args.courses,
                          args.entries, args.seed),
              args.constraints, args.seed)

\* where a row stands in a list of distinct rows
positionIn(list, row) == CHOOSE i \in 1..Len(list) : list[i] = row

\* neighbours are in order of time, and neighbours of the same time in the
\* order of the concatenation; so, then, is every pair
StableSortedByTime(list, concatenation) ==
  /\ IsPermutation(list, concatenation)
  /\ \A i \in 1..(Len(list) - 1) :
       /\ rowMinutes(list[i]) <= rowMinutes(list[i + 1])
       /\ list[i].startTime = list[i + 1].startTime
          => positionIn(concatenation, list[i])
             < positionIn(concatenation, list[i + 1])

\* C7: the list generateStartList returns is the concatenation of every
\* lane's output in non-decreasing order of start time, and rows with the
\* same start time keep the order they had in the concatenation (area, then
\* lane, then position).  Checked for start times of one day, where the
\* order of the texts "HH:MM:SS" is the order of the times; localeCompare
\* compares texts, so that a time of 100 hours or more would sort before
\* "99:59:00".  Stated of the latest run, which every run is when it returns.
C7_SortedStableConcatenation ==
  runs # <<>> =>
    StableSortedByTime(runs[Len(runs)].startList,
                       laneOutputs(runs[Len(runs)].args))

\* a run in which the sort moved rows and two lanes share a start time
C7_Witness ==
  \E k \in 1..Len(runs) :
    LET list == runs[k].startList
    IN  /\ Len(list) >= 4
        /\ list # laneOutputs(runs[k].args)
        /\ \E i \in 1..(Len(list) - 1) :
             /\ list[i].startTime = list[i + 1].startTime
             /\ list[i].startArea # list[i + 1].startArea

\* the rows of one lane of one area, in schedule order
rowsOfPlace(startList, place) ==
  SelectSeq(startList, LAMBDA row : row.lane = place.lane.name /\ row.startArea = place.area.name)

\* the courses of the lane as generateStartList populates them, in course
\* order
coursesOfPlace(args, place) ==
  sortByOrder(coursesOfLane(populateAll(lanesInOrder(args.startAreas), args.courses, args.entries, args.seed),
                            place.area, place.lane))

\* the names of the lane's entries, each course ordered by a plain seeded
\* shuffle unless the lane's flag and the global constraint are both set,
\* and by the search when they are
namesExpected(args, place) ==
  LET courses == coursesOfPlace(args, place)
      separate == place.lane.affiliationSplit /\ args.constraints.avoidSameClubConsecutive
  IN  Flatten([j \in 1..Len(courses) |->
                 LET ordered == IF separate
                                THEN shuffleAvoidingConsecutiveAffiliations(courses[j].entries, LaneMaxAttempts, args.seed)
                                ELSE shuffleArray(courses[j].entries, createRng(args.seed))
                 IN  [k \in 1..Len(ordered) |-> ordered[k].name1]])

\* C26: a lane for which separation is off has each of its courses in the
\* order of the plain seeded shuffle, and separation is on for a lane only
\* when lane.affiliationSplit and constraints.avoidSameClubConsecutive are
\* both true.  Stated of the latest run.
C26_PlainShuffleUnlessBothFlags ==
  runs # <<>> =>
    LET run == runs[Len(runs)]
        places == lanesInOrder(run.args.startAreas)
    IN  \A p \in 1..Len(places) :
          LET rows == rowsOfPlace(run.startList, places[p])
          IN  [k \in 1..Len(rows) |-> rows[k].name1] = namesExpected(run.args, places[p])

\* a run with the global constraint off whose first lane, flagged for
\* separation, holds a course that the search would have ordered otherwise
C26_Witness ==
  /\ runs # <<>>
  /\ ~runs[1].args.constraints.avoidSameClubConsecutive
  /\ LET place == lanesInOrder(runs[1].args.startAreas)[1]
         courses == coursesOfPlace(runs[1].args, place)
     IN  /\ place.lane.affiliationSplit
         /\ \E j \in 1..Len(courses) :
              /\ Len(courses[j].entries) >= 2
              /\ shuffleArray(courses[j].entries, createRng(runs[1].args.seed))
                 # shuffleAvoidingConsecutiveAffiliations(courses[j].entries, LaneMaxAttempts, runs[1].args.seed)
              /\ \E k \in 1..Len(runs[1].startList) :
                   /\ runs[1].startList[k].className = courses[j].name
                   /\ runs[1].startList[k].name1
                      = shuffleArray(courses[j].entries, createRng(runs[1].args.seed))[1].name1

LaneRowsDistinct ==
  \A k \in 1..Len(runs) :
    LET rows == laneOutputs(runs[k].args)
    IN  \A i, j \in 1..Len(rows) : i # j => rows[i] # rows[j]

(***************************************************************************)
(* The two token parsers on every short text                               *)
(***************************************************************************)
\* the longest raw affiliation text
MaxTokenLen == 3

TokenAlphabet == {"a", "B", "1", "/", ",", FWCOMMA, "-", " "}

TokenTexts == TextsUpTo(TokenAlphabet, MaxTokenLen)

\* runs of digits written behind a text
DigitRuns == {<<"1">>, <<"2", "1">>}

\* the tokens the import and the conflict detector derive from a raw text
importedTokens(text) == parseAffiliation(text)

detectedTokens(text) == parseAffiliationsFromEntry([affiliation |-> text])

InitTokens ==
  /\ call \in [op : {"parseAffiliation"}, text : TokenTexts,
               digits : DigitRuns]
  /\ ret = Pending
  /\ runs = <<>>

\* both parsers on the text, and on the text with the digits behind it
ParseAffiliations ==
  /\ call.op = "parseAffiliation"
  /\ ret = Pending
  /\ ret' = Returned([imported |-> importedTokens(call.text),
                      detected |-> detectedTokens(call.text),
                      importedNumbered |->
                        importedTokens(call.text \o call.digits),
                      detectedNumbered |->
                        detectedTokens(call.text \o call.digits)])
  /\ UNCHANGED <<call, runs>>

NextTokens == ParseAffiliations

SpecTokens == InitTokens /\ [][NextTokens]_vars

TokensReturned == call.op = "parseAffiliation" /\ ret.state = "returned"

\* the parts of a raw text between its separators
partsOf(text) == SplitOnSeparators(text, 1, <<>>)

HasSeparator(text) == \E i \in 1..Len(text) : IsSeparator(text[i])

\* a text that is one club name: no separator, no blank at either end, not
\* a placeholder, and a character that is neither a digit nor a blank
IsClubName(text) ==
  /\ ~HasSeparator(text)
  /\ Trim(text) = text
  /\ \E i \in 1..Len(text) : ~IsDigit(text[i]) /\ ~IsSpace(text[i])
  /\ normalizeWhitespace(text) \notin HyphenMarkers

\* trailing digits do not change the token of a club name, and "-" and ""
\* have no token
DigitsAndPlaceholders ==
  /\ IsClubName(call.text)
     => /\ ret.value.importedNumbered = ret.value.imported
        /\ ret.value.detectedNumbered = ret.value.detected
  /\ call.text \in {<<>>, <<"-">>}
     => ret.value.imported = <<>> /\ ret.value.detected = <<>>
  /\ call.text = <<"a", "/", "B">>
     => /\ ret.value.imported = <<<<"a">>, <<"B">>>>
        /\ ret.value.detected = <<<<"a">>, <<"b">>>>

insertionOrder(keys) ==
  LET firsts == {i \in 1..Len(keys) : \A k \in 1..(i - 1) : keys[k] # keys[i]}
      nth(n) == CHOOSE i \in firsts : Cardinality({k \in firsts : k < i}) = n - 1
  IN  [n \in 1..Cardinality(firsts) |-> keys[nth(n)]]

\* byTime: the rows pushed under their startTime
byTime(startList) ==
  LET times == insertionOrder([i \in 1..Len(startList) |-> startList[i].startTime])
  IN  [n \in 1..Len(times) |->
         [time |-> times[n],
          entries |-> SelectSeq(startList, LAMBDA e : e.startTime = times[n])]]

\* the same-time conflicts of the rows of one start time
sameTimeGroupConflicts(time, entries, constraints) ==
  LET filteredEntries ==
        IF constraints.sameTimeClubScope = "selected"
        THEN SelectSeq(entries, LAMBDA e : e.startArea \in Range(constraints.sameTimeClubSelectedAreas))
        ELSE entries
      pushed ==
        Flatten([i \in 1..Len(filteredEntries) |->
                   LET affiliations == parseAffiliationsFromEntry(filteredEntries[i])
                   IN  [k \in 1..Len(affiliations) |->
                          [aff |-> affiliations[k], entry |-> filteredEntries[i]]]])
      affs == insertionOrder([i \in 1..Len(pushed) |-> pushed[i].aff])
      affEntries(aff) ==
        LET under == SelectSeq(pushed, LAMBDA c : c.aff = aff)
        IN  [i \in 1..Len(under) |-> under[i].entry]
      several == SelectSeq(affs, LAMBDA aff : Len(affEntries(aff)) > 1)
  IN  [n \in 1..Len(several) |->
         [type |-> "same-time-club",
          entries |-> affEntries(several[n]),
          startTime |-> time,
          message |-> [time |-> time, aff |-> several[n]]]]

\* the conflicts after the same-time check
sameTimeConflicts(startList, constraints) ==
  IF constraints.allowSameTimeClubDuplicates THEN <<>>
  ELSE LET groups == byTime(startList)
       IN  Flatten([n \in 1..Len(groups) |->
                      sameTimeGroupConflicts(groups[n].time, groups[n].entries, constraints)])

\* `${entry.startArea}-${entry.lane}`
laneKey(entry) == entry.startArea \o <<"-">> \o entry.lane

\* byLane: the rows pushed under the key of their lane, each array a new one
byLane(startList) ==
  LET keys == insertionOrder([i \in 1..Len(startList) |-> laneKey(startList[i])])
  IN  [n \in 1..Len(keys) |->
         SelectSeq(startList, LAMBDA e : laneKey(e) = keys[n])]

\* the rows of a lane that are compared, before they are sorted
laneFiltered(laneEntries, constraints) ==
  IF constraints.allowSameLaneClubDuplicates = "disallow-selected"
  THEN SelectSeq(laneEntries, LAMBDA e : e.className \in Range(constraints.sameLaneClubSelectedCourses))
  ELSE laneEntries

\* loops that compare each row with the next one only
neighbourPairs(filteredEntries, timeWindow) ==
  [n \in 1..(Len(filteredEntries) - 1) |-> <<n, n + 1>>]

\* the index pairs the two loops reach: for each i the j after it, up to
\* the first one beyond the window, where the inner loop breaks
comparedPairs(filteredEntries, timeWindow) ==
  Flatten([i \in 1..Len(filteredEntries) |->
             LET reached == {j \in (i + 1)..Len(filteredEntries) :
                               \A k \in (i + 1)..j :
                                 rowMinutes(filteredEntries[k]) - rowMinutes(filteredEntries[i]) <= timeWindow}
             IN  [n \in 1..Cardinality(reached) |-> <<i, i + n>>]])

\* one turn of the inner loop: the pair is pushed when the rows share a
\* token and no same-lane conflict of the lane holds both rows yet
comparePair(entry1, entry2, timeWindow, conflicts) ==
  IF commonAffs(entry1, entry2) = {} THEN conflicts
  ELSE IF \E n \in 1..Len(conflicts) :
            /\ conflicts[n].type = "same-lane-club"
            /\ conflicts[n].lane = entry1.lane
            /\ entry1 \in Range(conflicts[n].entries)
            /\ entry2 \in Range(conflicts[n].entries)
       THEN conflicts
       ELSE Append(conflicts,
                   [type |-> "same-lane-club",
                    entries |-> <<entry1, entry2>>,
                    startTime |-> entry1.startTime,
                    lane |-> entry1.lane,
                    startArea |-> entry1.startArea,
                    message |-> [lane |-> entry1.lane, timeWindow |-> timeWindow,
                                 affs |-> SelectSeq(parseAffiliationsFromEntry(entry1),
                                                    LAMBDA a : a \in Range(parseAffiliationsFromEntry(entry2)))]])

RECURSIVE pairLoop(_, _, _, _, _)
pairLoop(filteredEntries, pairs, p, timeWindow, conflicts) ==
  IF p > Len(pairs) THEN conflicts
  ELSE pairLoop(filteredEntries, pairs, p + 1, timeWindow,
                comparePair(filteredEntries[pairs[p][1]], filteredEntries[pairs[p][2]], timeWindow, conflicts))

RECURSIVE byLaneLoop(_, _, _, _)
byLaneLoop(lanes, n, constraints, conflicts) ==
  IF n > Len(lanes) THEN conflicts
  ELSE LET filteredEntries == sortByStartTime(laneFiltered(lanes[n], constraints))
           pairs == comparedPairs(filteredEntries, constraints.sameLaneClubTimeWindow)
       IN  byLaneLoop(lanes, n + 1, constraints,
                      pairLoop(filteredEntries, pairs, 1, constraints.sameLaneClubTimeWindow, conflicts))

checkConflicts(startList, constraints) ==
  LET conflicts == sameTimeConflicts(startList, constraints)
  IN  IF constraints.allowSameLaneClubDuplicates = "allow" THEN conflicts
      ELSE byLaneLoop(byLane(startList), 1, constraints, conflicts)

\* a check that sorts the array passed in
sortedInPlace(startList, constraints) ==
  [startList |-> IF constraints.allowSameLaneClubDuplicates = "allow" THEN startList
                 ELSE sortByStartTime(startList),
   byLane |-> <<>>]

\* the arrays that checkConflicts has sorted, as they are after the call:
\* sort acts on the array of byLane, or on the copy filter made of it, and
\* the array passed in is only read
sortedByCheck(startList, constraints) ==
  [startList |-> startList,
   byLane |-> IF constraints.allowSameLaneClubDuplicates = "allow" THEN <<>>
              ELSE LET lanes == byLane(startList)
                   IN  [n \in 1..Len(lanes) |->
                          IF constraints.allowSameLaneClubDuplicates = "disallow-selected"
                          THEN lanes[n]
                          ELSE sortByStartTime(lanes[n])]]

\* the most rows of a checked start list
MaxRows == 3

\* the affiliation cells of the rows, by start number: the first row shares
\* a token with the second and another with the third
ConflictAffiliations == <<<<"X", "1", "/", "Y">>, <<"x">>, <<"Y", "/", "y", "2">>, <<"-">>>>

\* three start times around the hour, 3 minutes apart
ConflictTimes == {formatTime(8 * 60 + 57 + d) : d \in {0, 3, 6}}

\* where a row starts: start area, lane and course
ConflictPlaces ==
  {[startArea |-> <<"A", "1">>, lane |-> <<"L", "1">>, className |-> <<"M">>],
   [startArea |-> <<"A", "1">>, lane |-> <<"L", "1">>, className |-> <<"W">>],
   [startArea |-> <<"A", "1">>, lane |-> <<"L", "2">>, className |-> <<"M">>],
   [startArea |-> <<"A", "2">>, lane |-> <<"L", "1">>, className |-> <<"W">>]}

\* the row with the given start number
conflictRow(number, time, place) ==
  [className |-> place.className,
   startNumber |-> number,
   name1 |-> <<"n">> \o IntToText(number),
   affiliation |-> ConflictAffiliations[number],
   startTime |-> time,
   cardNumber |-> <<>>,
   cardNote |-> <<>>,
   isRental |-> TRUE,
   lane |-> place.lane,
   startArea |-> place.startArea]

\* start lists in any order of time, rows numbered from 1
RECURSIVE StartListsOf(_)
StartListsOf(n) ==
  IF n = 0 THEN {<<>>}
  ELSE LET shorter == StartListsOf(n - 1)
       IN  shorter \cup {Append(list, conflictRow(n, time, place)) :
                           list \in {l \in shorter : Len(l) = n - 1},
                           time \in ConflictTimes, place \in ConflictPlaces}

ConflictStartLists ==
  StartListsOf(IF MaxRows < Len(ConflictAffiliations) THEN MaxRows ELSE Len(ConflictAffiliations))

\* the settings of the two checks
ConflictSettings ==
  {c \in [allowSameTimeClubDuplicates : BOOLEAN,
          sameTimeClubScope : {"all", "selected"},
          sameTimeClubSelectedAreas : {<<<<"A", "1">>>>},
          allowSameLaneClubDuplicates : {"allow", "disallow-all", "disallow-selected"},
          sameLaneClubSelectedCourses : {<<<<"M">>>>},
          sameLaneClubTimeWindow : {3, 5}] :
     /\ c.allowSameTimeClubDuplicates => c.sameTimeClubScope = "all"
     /\ c.allowSameLaneClubDuplicates # "disallow-all" => c.sameLaneClubTimeWindow = 5}

InitConflicts ==
  /\ call \in [op : {"checkConflicts"}, startList : ConflictStartLists,
               constraints : ConflictSettings]
  /\ ret = Pending
  /\ runs = <<>>

\* checkConflicts(startList, constraints): the conflicts are returned and
\* the array passed in is left as the call leaves it
CheckConflicts ==
  /\ call.op = "checkConflicts"
  /\ ret = Pending
  /\ ret' = Returned(checkConflicts(call.startList, call.constraints))
  /\ call' = [call EXCEPT !.startList = sortedByCheck(call.startList, call.constraints).startList]
  /\ runs' = Append(runs, [args |-> call])

NextConflicts == CheckConflicts

SpecConflicts == InitConflicts /\ [][NextConflicts]_vars

ConflictsReturned == call.op = "checkConflicts" /\ ret.state = "returned"

\* the rows as they were passed in
PassedStartList == runs[1].args.startList

sameLane(row1, row2) == row1.startArea = row2.startArea /\ row1.lane = row2.lane

tokensOverlap(row1, row2) ==
  Range(parseAffiliationsFromEntry(row1)) \cap Range(parseAffiliationsFromEntry(row2)) # {}

minutesApart(row1, row2) ==
  IF rowMinutes(row1) < rowMinutes(row2) THEN rowMinutes(row2) - rowMinutes(row1)
  ELSE rowMinutes(row1) - rowMinutes(row2)

SameLaneFound == SelectSeq(ret.value, LAMBDA c : c.type = "same-lane-club")

SameTimeFound == SelectSeq(ret.value, LAMBDA c : c.type = "same-time-club")

\* the row is among those the same-lane check compares
laneCompared(row) ==
  \/ call.constraints.allowSameLaneClubDuplicates = "disallow-all"
  \/ /\ call.constraints.allowSameLaneClubDuplicates = "disallow-selected"
     /\ row.className \in Range(call.constraints.sameLaneClubSelectedCourses)

\* C15: two rows of one lane are reported as a same-lane conflict exactly
\* when both are compared (all rows with 'disallow-all', the rows of the
\* listed courses with 'disallow-selected', none with 'allow'), their tokens
\* overlap and their start times are at most sameLaneClubTimeWindow minutes
\* apart; each such pair is reported once, and nothing else is reported
C15_SameLaneWindow ==
  ConflictsReturned =>
    /\ call.constraints.allowSameLaneClubDuplicates = "allow" => SameLaneFound = <<>>
    /\ \A n \in 1..Len(SameLaneFound) :
         /\ Len(SameLaneFound[n].entries) = 2
         /\ \E i, j \in 1..Len(PassedStartList) :
              /\ i # j
              /\ SameLaneFound[n].entries = <<PassedStartList[i], PassedStartList[j]>>
              /\ sameLane(PassedStartList[i], PassedStartList[j])
    /\ \A i, j \in 1..Len(PassedStartList) :
         (i < j /\ sameLane(PassedStartList[i], PassedStartList[j]))
         => Cardinality({n \in 1..Len(SameLaneFound) :
                           Range(SameLaneFound[n].entries) = {PassedStartList[i], PassedStartList[j]}})
            = IF /\ laneCompared(PassedStartList[i])
                 /\ laneCompared(PassedStartList[j])
                 /\ tokensOverlap(PassedStartList[i], PassedStartList[j])
                 /\ minutesApart(PassedStartList[i], PassedStartList[j])
                    <= call.constraints.sameLaneClubTimeWindow
              THEN 1 ELSE 0

\* with window 5, a pair of one lane 3 minutes apart is reported and a pair
\* of that lane with a shared token 6 minutes apart is not
C15_Witness ==
  /\ ConflictsReturned
  /\ call.constraints.sameLaneClubTimeWindow = 5
  /\ \E n \in 1..Len(SameLaneFound) :
       /\ minutesApart(SameLaneFound[n].entries[1], SameLaneFound[n].entries[2]) = 3
       /\ \E i, j \in 1..Len(PassedStartList) :
            /\ sameLane(PassedStartList[i], SameLaneFound[n].entries[1])
            /\ sameLane(PassedStartList[i], PassedStartList[j])
            /\ tokensOverlap(PassedStartList[i], PassedStartList[j])
            /\ minutesApart(PassedStartList[i], PassedStartList[j]) = 6
            /\ \A m \in 1..Len(SameLaneFound) :
                 Range(SameLaneFound[m].entries) # {PassedStartList[i], PassedStartList[j]}

\* the row is within the area scope of the same-time check
inAreaScope(row) ==
  \/ call.constraints.sameTimeClubScope # "selected"
  \/ row.startArea \in Range(call.constraints.sameTimeClubSelectedAreas)

\* the rows of the scope that start at the time and carry the token
timeTokenGroup(time, token) ==
  {i \in 1..Len(PassedStartList) :
     /\ PassedStartList[i].startTime = time
     /\ inAreaScope(PassedStartList[i])
     /\ token \in Range(parseAffiliationsFromEntry(PassedStartList[i]))}

C29_ConflictNamesTwoRows ==
  ConflictsReturned =>
    \A n \in 1..Len(SameTimeFound) :
      \E i, j \in 1..Len(SameTimeFound[n].entries) :
        SameTimeFound[n].entries[i].startNumber # SameTimeFound[n].entries[j].startNumber

roundsOf(course, affiliationSplit, seed) ==
  IF affiliationSplit
  THEN shuffleSearch(course.entries, LaneMaxAttempts, seed).rounds
  ELSE 0

\* the rounds of every course of every lane, in the order of the lanes
roundsRun(courses, startAreas, entries, constraints, seed) ==
  LET places == lanesInOrder(startAreas)
      populatedCourses == populateAll(places, courses, entries, seed)
  IN  Flatten([p \in 1..Len(places) |->
                 LET laneCourseList == sortByOrder(coursesOfLane(populatedCourses, places[p].area, places[p].lane))
                 IN  [k \in 1..Len(laneCourseList) |->
                        roundsOf(laneCourseList[k],
                                 places[p].lane.affiliationSplit /\ constraints.avoidSameClubConsecutive,
                                 seed)]])

\* entry lists of one class: runs of neighbours in the imported roster, and
\* two entries of one club
AttemptEntryLists ==
  LET last == IF MaxEntries + 1 < Len(RosterEntries) THEN MaxEntries + 1 ELSE Len(RosterEntries)
  IN  {SubSeq(RosterEntries, ab[1], ab[2]) : ab \in {p \in (1..last) \X (1..last) : p[2] - p[1] < MaxEntries}}
      \cup {l \in SameClubLists : Len(l) = 2}

\* maxShuffleAttempts of the initial constraints
DefaultMaxShuffleAttempts == 1000

\* what is typed into the maxShuffleAttempts field
AttemptTexts == {<<"1", "0">>, <<"5", "0">>, <<"1", "0", "0", "0">>, <<>>}

\* the application state before generation: the entries, one course per
\* class held by the first lane, the default constraints
AttemptCalls ==
  {[op |-> "generateStartList",
    courses |-> generateCourses(detectClasses(entries), entries),
    startAreas |-> Venue(courseIdsOf([courses |-> generateCourses(detectClasses(entries), entries)]), <<>>, <<>>),
    entries |-> entries,
    constraints |-> [avoidSameClubConsecutive |-> avoid, maxShuffleAttempts |-> DefaultMaxShuffleAttempts],
    seed |-> seed] :
     entries \in AttemptEntryLists, avoid \in BOOLEAN, seed \in Seeds}

InitAttempts ==
  /\ call \in AttemptCalls
  /\ ret = Pending
  /\ runs = <<>>

\* updateConstraints({ maxShuffleAttempts: parseInt(e.target.value) || 100 })
SetMaxShuffleAttempts ==
  /\ call.op = "generateStartList"
  /\ ret = Pending
  /\ \E text \in AttemptTexts :
       call' = [call EXCEPT !.constraints.maxShuffleAttempts = parseIntOr(text, 100)]
  /\ UNCHANGED <<ret, runs>>

\* handleGenerate, with the rounds the lanes ran
GenerateCounted ==
  /\ call.op = "generateStartList"
  /\ ret = Pending
  /\ \E rounds \in {roundsRun(call.courses, call.startAreas, call.entries, call.constraints, call.seed)} :
       ret' = Returned([startList |-> generateStartList(call.courses, call.startAreas, call.entries,
                                                        call.constraints, call.seed),
                        rounds |-> rounds])
  /\ UNCHANGED <<call, runs>>

NextAttempts == SetMaxShuffleAttempts \/ GenerateCounted

SpecAttempts == InitAttempts /\ [][NextAttempts]_vars

\* C20: a generation runs, for each course, no more shuffle rounds than the
\* configured constraints.maxShuffleAttempts
C20_RoundsWithinConfigured ==
  (call.op = "generateStartList" /\ ret.state = "returned")
  => \A k \in 1..Len(ret.value.rounds) :
       ret.value.rounds[k] <= call.constraints.maxShuffleAttempts

(***************************************************************************)
(* Generation of a split class when the rank lookup of the class is held   *)
(* in the application state                                                *)
(***************************************************************************)
\* entry lists of the class M: the first entries of the ranked six and of
\* the imported roster
RankedEntryLists ==
  {SubSeq(list, 1, n) : list \in {SixRanked, RosterEntries},
                        n \in 0..(IF MaxEntries < 6 THEN MaxEntries ELSE 6)}

\* the lookups that SET_RANKINGS stores for the class
FetchedRankings == {SixRanks} \cup (RankLookups \ {<<>>})

\* the application state before generation: the class M split into
\* splitCount courses held by the first lane, no rankings fetched yet
RankedCalls ==
  {[op |-> "generateStartList",
    courses |-> coursesOfClass([name |-> <<"M">>, count |-> Len(entries), shouldSplit |-> TRUE, splitCount |-> n], entries),
    startAreas |-> Venue([i \in 1..n |-> <<"M", "-">> \o NatToText(i)], <<>>, <<>>),
    entries |-> entries,
    constraints |-> [avoidSameClubConsecutive |-> avoid, useRankingForSplit |-> use],
    seed |-> seed,
    rankings |-> <<>>] :
     entries \in RankedEntryLists, n \in 2..MaxSplit, avoid \in BOOLEAN,
     use \in BOOLEAN, seed \in Seeds}

InitRanked ==
  /\ call \in RankedCalls
  /\ ret = Pending
  /\ runs = <<>>

\* handleFetchRankings: the lookup fetched for the class is stored
\* (SET_RANKINGS)
SetRankings ==
  /\ call.op = "generateStartList"
  /\ ret = Pending
  /\ call.constraints.useRankingForSplit
  /\ \E rankings \in FetchedRankings : call' = [call EXCEPT !.rankings = rankings]
  /\ UNCHANGED <<ret, runs>>

\* handleGenerate: generateStartList is given the courses, the start areas,
\* the entries, the constraints and the seed of the state
GenerateRanked ==
  /\ call.op = "generateStartList"
  /\ ret = Pending
  /\ ret' = Returned(generateStartList(call.courses, call.startAreas, call.entries,
                                       call.constraints, call.seed))
  /\ UNCHANGED <<call, runs>>

NextRanked == SetRankings \/ GenerateRanked

SpecRanked == InitRanked /\ [][NextRanked]_vars

\* the entries whose rows carry the name of the course, in row order
entriesScheduledIn(startList, course) ==
  LET rows == SelectSeq(startList, LAMBDA row : row.className = course.name)
  IN  {rows[k].name1 : k \in 1..Len(rows)}

\* C21: when the lookup of a split class is held and ranking is switched on
\* for the class, each course of the class is scheduled with the entries of
\* its rank-based group: the group splitClassByRanking makes with the lookup
C21_ScheduleUsesRankGroups ==
  (/\ call.op = "generateStartList"
   /\ "rankings" \in DOMAIN call
   /\ ret.state = "returned"
   /\ call.constraints.useRankingForSplit
   /\ call.rankings # <<>>)
  => LET groups == splitClassByRanking(entriesOfClass(call.entries, <<"M">>),
                                       Len(call.courses), call.rankings, call.seed)
     IN  \A j \in 1..Len(call.courses) :
           entriesScheduledIn(ret.value, call.courses[j])
           = {groups[call.courses[j].splitNumber][k].name1 :
                k \in 1..Len(groups[call.courses[j].splitNumber])}

(***************************************************************************)
(* greedyOrderByAffiliation on every short entry list                      *)
(***************************************************************************)
InitGreedy ==
  /\ call \in [op : {"greedyOrderByAffiliation"}, entries : EntryLists \cup SameClubLists]
  /\ ret = Pending
  /\ runs = <<>>

CallGreedy ==
  /\ call.op = "greedyOrderByAffiliation"
  /\ ret = Pending
  /\ ret' = Returned(greedyOrderByAffiliation(call.entries))
  /\ UNCHANGED <<call, runs>>

NextGreedy == CallGreedy

SpecGreedy == InitGreedy /\ [][NextGreedy]_vars

GreedyReturned == call.op = "greedyOrderByAffiliation" /\ ret.state = "returned"

\* the pool when the entry at place t of the result is chosen: the entries
\* not placed yet, in the order they were given
poolAt(entries, result, t) ==
  SelectSeq(entries, LAMBDA e : \A k \in 1..(t - 1) : result[k] # e)

\* C24: the result starts with the head of the given entries; each further
\* entry is the first of the remaining pool that does not overlap the entry
\* placed before it, or the first of the pool when every pool entry
\* overlaps it; so two neighbours of the result overlap only where the
\* whole pool overlapped the entry placed before
C24_GreedyTakesFirstFree ==
  GreedyReturned
  => LET entries == call.entries
         result == ret.value
     IN  /\ Len(result) = Len(entries)
         /\ entries # <<>> => result[1] = entries[1]
         /\ \A t \in 2..Len(result) :
              LET pool == poolAt(entries, result, t)
                  free == {i \in 1..Len(pool) : ~hasAffiliationOverlap(result[t - 1], pool[i])}
              IN  /\ free # {} => /\ result[t] = pool[CHOOSE i \in free : \A k \in free : i <= k]
                                  /\ ~hasAffiliationOverlap(result[t - 1], result[t])
                  /\ free = {} => result[t] = pool[1]
                  /\ hasAffiliationOverlap(result[t - 1], result[t])
                     => \A i \in 1..Len(pool) : hasAffiliationOverlap(result[t - 1], pool[i])

\* a repair that moved an entry forward and still had to accept a conflict
C24_Witness ==
  /\ GreedyReturned
  /\ Len(call.entries) >= 4
  /\ ret.value # call.entries
  /\ \E t \in 2..Len(ret.value) : ret.value[t] # poolAt(call.entries, ret.value, t)[1]
  /\ \E t \in 3..Len(ret.value) : hasAffiliationOverlap(ret.value[t - 1], ret.value[t])

(***************************************************************************)
(* The search loop of shuffleAvoidingConsecutiveAffiliations, round by     *)
(* round: runs holds the bookkeeping after each round                      *)
(***************************************************************************)
\* the bookkeeping the loop ended with
lastRound == runs[Len(runs)]

\* the conflicts of the order a round tries: the greedy order of the
\* shuffle drawn from the generator as the round finds it
triedBy(entries, st) ==
  conflictsIn(greedyOrder(shuffleArray(Positions(entries), st.rng), overlapMatrix(entries)),
              overlapMatrix(entries))

\* entries.length <= 1: the entries are returned as they are
ReturnShort ==
  /\ call.op = "shuffleAvoidingConsecutiveAffiliations"
  /\ ret = Pending
  /\ Len(call.entries) <= 1
  /\ ret' = Returned(call.entries)
  /\ UNCHANGED <<call, runs>>

\* rng, bestResult and bestConflicts before the first round
BeginSearch ==
  /\ call.op = "shuffleAvoidingConsecutiveAffiliations"
  /\ ret = Pending
  /\ runs = <<>>
  /\ Len(call.entries) > 1
  /\ runs' = <<[st |-> [result |-> Positions(call.entries),
                        conflicts |-> countConsecutiveConflicts(call.entries),
                        rounds |-> 0, rng |-> createRng(call.seed), done |-> FALSE],
                tried |-> <<>>]>>
  /\ UNCHANGED <<call, ret>>

\* one round of the loop: attempt < maxAttempts and no break before
SearchRound ==
  /\ call.op = "shuffleAvoidingConsecutiveAffiliations"
  /\ ret = Pending
  /\ runs # <<>>
  /\ lastRound.st.rounds < call.maxAttempts
  /\ ~lastRound.st.done
  /\ runs' = Append(runs, [st |-> attemptStep(Positions(call.entries), overlapMatrix(call.entries), lastRound.st),
                           tried |-> <<triedBy(call.entries, lastRound.st)>>])
  /\ UNCHANGED <<call, ret>>

\* return bestResult, after the break or the last round
ReturnBest ==
  /\ call.op = "shuffleAvoidingConsecutiveAffiliations"
  /\ ret = Pending
  /\ runs # <<>>
  /\ lastRound.st.done \/ lastRound.st.rounds >= call.maxAttempts
  /\ ret' = Returned(DerefAll(lastRound.st.result, call.entries))
  /\ UNCHANGED <<call, runs>>

NextSearch == ReturnShort \/ BeginSearch \/ SearchRound \/ ReturnBest

SpecSearch == InitShuffle /\ [][NextSearch]_vars

\* the rounds run so far
roundsRunSoFar == IF runs = <<>> THEN 0 ELSE Len(runs) - 1

\* what holds of the rounds a call has run
SearchBookkeeping ==
  call.op = "shuffleAvoidingConsecutiveAffiliations"
  => /\ roundsRunSoFar <= call.maxAttempts
     /\ \A k \in 2..Len(runs) :
          /\ runs[k].st.rounds = k - 1
          /\ runs[k].st.result # runs[k - 1].st.result
             => runs[k].tried[1] < runs[k - 1].st.conflicts
          /\ runs[k].tried[1] >= runs[k - 1].st.conflicts
             => /\ runs[k].st.result = runs[k - 1].st.result
                /\ runs[k].st.conflicts = runs[k - 1].st.conflicts
          /\ runs[k].tried[1] < runs[k - 1].st.conflicts
             => runs[k].st.conflicts = runs[k].tried[1]
          /\ k < Len(runs) => runs[k].tried[1] > 0
     /\ (ret = Pending /\ runs # <<>> /\ (roundsRunSoFar = call.maxAttempts \/ lastRound.st.done))
        => ENABLED ReturnBest /\ ~ENABLED SearchRound
     /\ ret.state = "returned"
        => /\ ~ENABLED NextSearch
           /\ ret.value = shuffleAvoidingConsecutiveAffiliations(call.entries, call.maxAttempts, call.seed)

\* C25: the loop runs at most maxAttempts rounds, and after the last of
\* them the only step of the call is its return; the best result is
\* replaced only by a round with strictly fewer conflicts than the best so
\* far, and no round follows the first round whose result has no conflict
C25_BoundedStrictSearch == SearchBookkeeping

\* a search that ran all its rounds: one improved on the input, a later one
\* tied with the best and was not kept
C25_Witness ==
  /\ call.op = "shuffleAvoidingConsecutiveAffiliations"
  /\ ret.state = "returned"
  /\ Len(runs) = call.maxAttempts + 1
  /\ Len(runs) >= 3
  /\ \E k \in 2..Len(runs) : runs[k].st.result # runs[k - 1].st.result
  /\ \E k \in 2..Len(runs) :
       /\ runs[k].tried[1] = runs[k - 1].st.conflicts
       /\ runs[k].st.result = runs[k - 1].st.result
       /\ greedyOrder(shuffleArray(Positions(call.entries), runs[k - 1].st.rng), overlapMatrix(call.entries))
          # runs[k - 1].st.result

(***************************************************************************)
(* generateStartListForLane on entries with every card number and rental   *)
(* flag                                                                    *)
(***************************************************************************)
\* the most entries of the course
MaxCardEntries == 2

\* the Entry at position k with the given card number and rental flag
cardEntry(k, cardNumber, isRental) ==
  [id |-> k, className |-> <<"M">>, name1 |-> <<"p", DigitChars[k + 1]>>,
   affiliation |-> <<>>, affiliations |-> parseAffiliation(<<>>),
   cardNumber |-> cardNumber, isRental |-> isRental]

CardKinds == {<<>>, <<"7">>, <<"0">>} \X BOOLEAN

CardEntryLists ==
  UNION {{[k \in 1..n |-> cardEntry(k, kinds[k][1], kinds[k][2])] : kinds \in [1..n -> CardKinds]} :
           n \in 0..MaxCardEntries}

CardLanes == {lane \in Lanes : lane.startNumber = 100 /\ lane.interval = 1 /\ lane.interCourseGap = 0}

InitCard ==
  /\ call \in [op : {"generateStartListForLane"},
               courses : {laneCourses(<<entries>>, FALSE) : entries \in CardEntryLists},
               lane : CardLanes, seed : Seeds]
  /\ ret = Pending
  /\ runs = <<>>

SpecCard == InitCard /\ [][NextLane]_vars

\* C27: every schedule row carries the card note of its entry: 'my card'
\* exactly when the entry has a card number and its rental flag is not
\* set, and the rental note when it has no card number or the flag is set
C27_CardNoteFromEntry ==
  ret.state = "returned" =>
    LET entries == call.courses[1].entries
    IN  /\ Len(ret.value) = Len(entries)
        /\ \A k \in 1..Len(ret.value) :
             \E j \in 1..Len(entries) :
               /\ ret.value[k].name1 = entries[j].name1
               /\ ret.value[k].cardNote \in {"my card", "rental"}
               /\ ret.value[k].cardNote = "my card"
                  <=> (entries[j].cardNumber # <<>> /\ ~entries[j].isRental)
               /\ ret.value[k].cardNote = "rental"
                  <=> (entries[j].cardNumber = <<>> \/ entries[j].isRental)

\* a schedule with an own card next to a rented one whose entry has a card
\* number recorded
C27_Witness ==
  /\ ret.state = "returned"
  /\ \E k \in 1..Len(ret.value) :
       ret.value[k].cardNote = "my card" /\ ret.value[k].cardNumber # <<>>
  /\ \E k \in 1..Len(ret.value) :
       ret.value[k].cardNote = "rental" /\ ret.value[k].cardNumber # <<>>

(***************************************************************************)
(* The step wizard: handlers read the AppState of the render they were     *)
(* made in, dispatch queues actions, and the reducer runs when React       *)
(* renders again.  call.state is the AppState of the current render, runs  *)
(* the actions dispatched and not yet reduced, ret the handler that ran    *)
(* last with the state it read.                                            *)
(***************************************************************************)
\* the largest split count chosen in step 1
MaxWizardSplit == 3

\* the most entries uploaded
MaxWizardEntries == 3

\* appReducer, for the actions of steps 0 to 2
appReducer(state, action) ==
  IF action.type = "SET_STEP" THEN [state EXCEPT !.step = action.payload]
  ELSE IF action.type = "SET_CLASSES" THEN [state EXCEPT !.classes = action.payload]
  ELSE IF action.type = "SET_COURSES" THEN [state EXCEPT !.courses = action.payload]
  ELSE state

\* the queued actions reduced in the order of their dispatch
RECURSIVE reduceAll(_, _)
reduceAll(state, actions) ==
  IF actions = <<>> THEN state
  ELSE reduceAll(appReducer(state, Head(actions)), Tail(actions))

\* canProceedToStep, on the state of the render that made it
canProceedToStep(state, step) ==
  IF step = "step0" THEN TRUE
  ELSE IF step = "step1" THEN Len(state.entries) > 0
  ELSE IF step = "step2" THEN Len(state.courses) > 0
  ELSE FALSE

\* the actions goToStep dispatches
goToStep(state, step) ==
  IF canProceedToStep(state, step) THEN <<[type |-> "SET_STEP", payload |-> step]>> ELSE <<>>

\* the handler ran in the current render
handled(handler) == Returned([handler |-> handler, state |-> call.state])

\* step 1 as the upload step leaves it: entries parsed, classes detected,
\* no courses yet
InitWizard ==
  /\ \E n \in 1..MaxWizardEntries :
       \E entries \in {SubSeq(RosterEntries, 1, n)} :
         call = [op |-> "wizard",
                 state |-> [step |-> "step1", entries |-> entries,
                            classes |-> detectClasses(entries), courses |-> <<>>]]
  /\ ret = Pending
  /\ runs = <<>>

\* a click is handled once the actions of the click before it are reduced
AtStep(step) == call.op = "wizard" /\ runs = <<>> /\ call.state.step = step

HandleToggleSplit ==
  /\ AtStep("step1")
  /\ \E k \in 1..Len(call.state.classes) :
       runs' = <<[type |-> "SET_CLASSES",
                  payload |-> [call.state.classes EXCEPT ![k].shouldSplit = ~@]]>>
  /\ ret' = handled("handleToggleSplit")
  /\ UNCHANGED call

HandleSplitCountChange ==
  /\ AtStep("step1")
  /\ \E k \in 1..Len(call.state.classes), count \in 2..MaxWizardSplit :
       /\ call.state.classes[k].shouldSplit
       /\ runs' = <<[type |-> "SET_CLASSES",
                     payload |-> [call.state.classes EXCEPT ![k].splitCount = count]]>>
  /\ ret' = handled("handleSplitCountChange")
  /\ UNCHANGED call

\* handleNext: generateCourses(), then goToStep('step2') of the same render
HandleNext ==
  /\ AtStep("step1")
  /\ runs' = <<[type |-> "SET_COURSES",
                payload |-> generateCourses(call.state.classes, call.state.entries)]>>
              \o goToStep(call.state, "step2")
  /\ ret' = handled("handleNext")
  /\ UNCHANGED call

BackToStep0 ==
  /\ AtStep("step1")
  /\ runs' = goToStep(call.state, "step0")
  /\ ret' = handled("backToStep0")
  /\ UNCHANGED call

ForwardToStep1 ==
  /\ AtStep("step0")
  /\ runs' = goToStep(call.state, "step1")
  /\ ret' = handled("forwardToStep1")
  /\ UNCHANGED call

BackToStep1 ==
  /\ AtStep("step2")
  /\ runs' = goToStep(call.state, "step1")
  /\ ret' = handled("backToStep1")
  /\ UNCHANGED call

\* React reduces the queued actions and renders again
Render ==
  /\ call.op = "wizard"
  /\ runs # <<>>
  /\ call' = [call EXCEPT !.state = reduceAll(call.state, runs)]
  /\ runs' = <<>>
  /\ UNCHANGED ret

NextWizard ==
  \/ HandleToggleSplit
  \/ HandleSplitCountChange
  \/ HandleNext
  \/ BackToStep0
  \/ ForwardToStep1
  \/ BackToStep1
  \/ Render

SpecWizard == InitWizard /\ [][NextWizard]_vars

\* Next was pressed on step 1 with a class and no courses, and its actions
\* are reduced
NextPressedFirst ==
  /\ ret.state = "returned"
  /\ ret.value.handler = "handleNext"
  /\ runs = <<>>
  /\ ret.value.state.classes # <<>>
  /\ ret.value.state.courses = <<>>

\* C30: pressing Next on step 1 with at least one class and no courses yet
\* both stores the generated courses and moves the wizard to step 2 in
\* that one press
C30_NextStoresAndMoves ==
  NextPressedFirst =>
    /\ call.state.courses = generateCourses(ret.value.state.classes, ret.value.state.entries)
    /\ call.state.courses # <<>>
    /\ call.state.step = "step2"

=============================================================================
